---- MODULE Spec2Model ----
(***************************************************************************)
(* Orchestration layer of the assistant agent: the plugin registry         *)
(* (plugin.Manager), the command executor (executor.Executor), the         *)
(* connection to the control plane (websocket.Client) and the agent's      *)
(* receive loop with its message router (agent.Agent), the persisted       *)
(* status record (state.Manager).                                          *)
(*                                                                         *)
(* SpecPlugin   : goroutines calling the plugin manager's operations.      *)
(* SpecExecutor : goroutines calling Execute / StopCommand / List...       *)
(* SpecAgent    : the receive loop, goroutines calling Send, Disconnect.   *)
(* SpecState    : goroutines calling the state store (state.Manager).      *)
(* SpecLife     : Agent.Start and Agent.Stop over those components.        *)
(* SpecSched    : the commands of the task scheduler plugin.               *)
(* SpecFire     : the scheduler plugin running its tasks (executeTask).    *)
(***************************************************************************)
EXTENDS Integers, Sequences, FiniteSets, TLC

(***************************************************************************)
(* Bounds                                                                  *)
(***************************************************************************)
MaxThreads == 1

MaxExec == 1

MaxSenders == 1

MaxStoreThreads == 2

MaxTicks == 1

MaxTasks == 1

MaxEntries == 2

MaxRuns == 2

Threads == 1..MaxThreads

ExecSlots == 1..MaxExec

\* goroutines that call Client.Send (plugins' NotifyEvent), the goroutine of
\* runWebSocketClient, the goroutine that calls Disconnect
Senders == 1..MaxSenders

LoopT == 0

StopT == MaxSenders + 1

(***************************************************************************)
(* Plugin objects and the name each reports from Info().                   *)
(***************************************************************************)
PluginObjs == {"a", "c"}

Names == {"p1", "p2"}

\* The plugins registerBuiltinPlugins constructs, in its order.
Builtins == <<"SoftwarePlugin", "PasswordPlugin", "FileTransferPlugin", "MonitorPlugin",
              "SchedulerPlugin", "UpdaterPlugin">>

\* Plugins that report the names the router looks up.
Mocks == {"MockScheduler", "MockFileTransfer"}

InfoName(o) ==
    CASE o = "SoftwarePlugin" -> "software-manager"
      [] o = "PasswordPlugin" -> "password-manager"
      [] o = "FileTransferPlugin" -> "file-transfer"
      [] o = "MonitorPlugin" -> "system-monitor"
      [] o = "SchedulerPlugin" -> "task-scheduler"
      [] o = "UpdaterPlugin" -> "updater"
      [] o = "MockScheduler" -> "scheduler"
      [] o = "MockFileTransfer" -> "filetransfer"
      [] o = "c" -> "p2"
      [] OTHER -> "p1"

GetConfig(o) == "cfg"

ErrPluginNotFound == "plugin not found"

ErrPluginAlreadyExists == "plugin already exists"

ErrPluginNotStarted == "plugin not started"

ErrPluginAlreadyStarted == "plugin already started"

ErrInvalidCommand == "invalid command"

VARIABLES
    plugins,    \* Manager.plugins : name -> PluginInstance
    pstatus,    \* the PluginStatus object each plugin owns (p.status)
    cfgFile,    \* <data dir>/plugins/<name>.json : "none" or a config
    mu,         \* Manager.mu : 0 when free, else the goroutine holding Lock()
    th,         \* per goroutine: the manager call it is executing
    evt,        \* the call that returned in the last step, with what it did
    ex,         \* per goroutine: the Execute call it is in, and its process
    running,    \* Executor.running : ids registered as in flight
    files,      \* script files present in Executor.tempDir
    exlast,     \* what the last StopCommand / ListRunningCommands / Stop returned
    ws,         \* Client.connected and Client.conn (with the connection's state)
    wmu,        \* Client.mu : holder of Lock(), holders of RLock(), waiting for Lock()
    lp,         \* the goroutine of Agent.runWebSocketClient
    snd,        \* per goroutine: the Client.Send call it is in, and what it returned
    stp,        \* the goroutine calling Client.Disconnect
    ctxDone,    \* Agent.ctx is cancelled
    sm,         \* state.Manager : status (the record) and startTime
    disk,       \* <data dir>/status.json
    clk,        \* time.Now(), in minutes
    sth,        \* per goroutine: the mutator of the state store it is in
    sevt,       \* the state-store call that returned in the last step
    sgh,        \* a write of the status file has failed since NewManager
    life,       \* Agent.running, Agent.mu, the goroutines in Agent.Start and Agent.Stop
    sp,         \* SchedulerPlugin : tasks, the cron scheduler, status, stopChan
    spevt       \* the scheduler command that returned in the last step

pmVars == <<plugins, pstatus, cfgFile, mu, th, evt>>

exVars == <<ex, running, files, exlast>>

agVars == <<ws, wmu, lp, snd, stp, ctxDone>>

smVars == <<sm, disk, clk, sth, sevt, sgh>>

spVars == <<sp, spevt>>

vars == <<plugins, pstatus, cfgFile, mu, th, evt, ex, running, files, exlast,
          ws, wmu, lp, snd, stp, ctxDone, sm, disk, clk, sth, sevt, sgh, life,
          sp, spevt>>

\* what an operation of one component leaves alone
notPlugin == <<exVars, agVars, smVars, life, spVars>>

notExecutor == <<pmVars, agVars, smVars, life, spVars>>

notAgent == <<pmVars, exVars, smVars, life, spVars>>

notState == <<pmVars, exVars, agVars, life, spVars>>

notSched == <<pmVars, exVars, agVars, smVars, life>>

(***************************************************************************)
(* Data                                                                    *)
(***************************************************************************)
PluginStatus(s, e) == [Status |-> s, LastError |-> e]

\* Manager.Register builds the instance with a status object of its own.
PluginInstance(o) ==
    [Plugin |-> o, Config |-> "empty", Own |-> PluginStatus("stopped", ""),
     Aliased |-> FALSE]

\* instance.Status: the manager's own object until GetPluginStatus replaces
\* the pointer by the one the plugin returned from Status().
InstStatus(reg, ps, n) ==
    IF reg[n].Aliased THEN ps[reg[n].Plugin] ELSE reg[n].Own

\* instance.Status.Status = s; instance.Status.LastError = e
SetInstStatus(w, n, s, e) ==
    IF w.reg[n].Aliased
    THEN [w EXCEPT !.ps[w.reg[n].Plugin] = PluginStatus(s, e)]
    ELSE [w EXCEPT !.reg[n].Own = PluginStatus(s, e)]

\* The plugins of the repository set their own status first thing.
PluginInit(w, o) == [w EXCEPT !.ps[o].Status = "initialized"]

PluginStart(w, o) == [w EXCEPT !.ps[o].Status = "running"]

PluginStop(w, o) == [w EXCEPT !.ps[o].Status = "stopped"]

World == [reg |-> plugins, ps |-> pstatus]

Idle == [pc |-> "idle", op |-> "none", name |-> "-", plan |-> "-",
         todo |-> <<>>, errs |-> 0]

Event(t, op, n, ret, res, calls) ==
    [op |-> op, name |-> n, ret |-> ret, res |-> res, calls |-> calls]

Perms(S) ==
    {s \in [1..Cardinality(S) -> S] : \A i, j \in DOMAIN s : s[i] = s[j] => i = j}

\* sync.RWMutex is not reentrant: Lock() and RLock() both wait for the
\* goroutine that holds Lock(), also when that goroutine is the caller.
CanLock(t) == mu = 0

CanRLock(t) == mu = 0

(***************************************************************************)
(* Return of a call.  A StartPlugin/StopPlugin made by StartAll/StopAll    *)
(* hands its error to the loop, which returns after the last name; the     *)
(* head of todo is the name the loop is at.                                *)
(***************************************************************************)
AllResult(op, errs) ==
    IF errs > 0
    THEN (IF op = "StartAll" THEN "failed to start some plugins"
                             ELSE "failed to stop some plugins")
    ELSE "nil"

Return(t, op, n, ret, res, calls) ==
    IF th[t].op \in {"StartAll", "StopAll"}
    THEN LET errs == th[t].errs + (IF ret = "nil" THEN 0 ELSE 1)
         IN IF Tail(th[t].todo) = <<>>
            THEN /\ th' = [th EXCEPT ![t] = Idle]
                 /\ evt' = Event(t, th[t].op, n, AllResult(th[t].op, errs), ret, calls)
            ELSE /\ th' = [th EXCEPT ![t] = [@ EXCEPT !.pc = "next", !.errs = errs,
                                                      !.todo = Tail(@),
                                                      !.name = "-", !.plan = "-"]]
                 /\ evt' = Event(t, "step", n, ret, res, calls)
    ELSE /\ th' = [th EXCEPT ![t] = Idle]
         /\ evt' = Event(t, op, n, ret, res, calls)

(***************************************************************************)
(* Manager.Register / Manager.Unregister                                   *)
(***************************************************************************)
\* Register without the collision check: the map entry is overwritten.
RegisterOverwrites(reg, o) ==
    [reg |-> (InfoName(o) :> PluginInstance(o)) @@ reg, ret |-> "nil"]

RegisterW(reg, o) ==
    IF InfoName(o) \in DOMAIN reg
    THEN [reg |-> reg, ret |-> ErrPluginAlreadyExists]
    ELSE [reg |-> (InfoName(o) :> PluginInstance(o)) @@ reg, ret |-> "nil"]

Register(t, o) ==
    /\ th[t].pc = "idle"
    /\ CanLock(t)
    /\ LET r == RegisterW(plugins, o)
       IN /\ plugins' = r.reg
          /\ Return(t, "Register", InfoName(o), r.ret, o, << <<o, "Info", "W">> >>)
    /\ UNCHANGED <<pstatus, cfgFile, mu>>
    /\ UNCHANGED notPlugin

\* Unregister without the existence check: delete() of a missing key.
UnregisterUnchecked(w, n) ==
    [w |-> [w EXCEPT !.reg = [m \in DOMAIN w.reg \ {n} |-> w.reg[m]]],
     ret |-> "nil", calls |-> <<>>]

UnregisterW(w, n) ==
    IF n \notin DOMAIN w.reg
    THEN [w |-> w, ret |-> ErrPluginNotFound, calls |-> <<>>]
    ELSE LET o == w.reg[n].Plugin
             isRunning == InstStatus(w.reg, w.ps, n).Status = "running"
             w1 == IF isRunning THEN PluginStop(w, o) ELSE w
         IN [w |-> [w1 EXCEPT !.reg = [m \in DOMAIN w.reg \ {n} |-> w.reg[m]]],
             ret |-> "nil",
             calls |-> IF isRunning THEN << <<o, "Stop", "W">> >> ELSE <<>>]

Unregister(t, n) ==
    /\ th[t].pc = "idle"
    /\ CanLock(t)
    /\ LET r == UnregisterW(World, n)
       IN /\ plugins' = r.w.reg
          /\ pstatus' = r.w.ps
          /\ Return(t, "Unregister", n, r.ret, "-", r.calls)
    /\ UNCHANGED <<cfgFile, mu>>
    /\ UNCHANGED notPlugin

(***************************************************************************)
(* Manager.StartPlugin / Manager.StopPlugin.  Each takes Lock() and keeps  *)
(* it (defer Unlock) across its call of LoadPluginConfig/SavePluginConfig, *)
(* which begin with RLock() on the same mutex.                             *)
(***************************************************************************)
StartEnter(t, op, n, plan) ==
    /\ CanLock(t)
    /\ IF n \notin DOMAIN plugins
       THEN /\ Return(t, op, n, ErrPluginNotFound, "-", <<>>)
            /\ UNCHANGED mu
       ELSE IF InstStatus(plugins, pstatus, n).Status = "running"
       THEN /\ Return(t, op, n, ErrPluginAlreadyStarted, "-", <<>>)
            /\ UNCHANGED mu
       ELSE /\ mu' = t
            /\ th' = [th EXCEPT ![t] = [@ EXCEPT !.pc = "load", !.op = op,
                                                 !.name = n, !.plan = plan]]
            /\ evt' = Event(t, "step", n, "-", "-", <<>>)
    /\ UNCHANGED <<plugins, pstatus, cfgFile>>
    /\ UNCHANGED notPlugin

StartPlugin(t, n) ==
    /\ th[t].pc = "idle"
    /\ \E plan \in {"ok", "init", "start"} : StartEnter(t, "StartPlugin", n, plan)

\* StartPlugin from Init() on: what is left once LoadPluginConfig returned.
StartFinish(w, n, plan) ==
    LET o  == w.reg[n].Plugin
        w1 == PluginInit(w, o)
        w2 == PluginStart(w1, o)
    IN IF plan = "init"
       THEN [w |-> SetInstStatus(w1, n, "error", "init failed"),
             ret |-> "failed to init plugin",
             calls |-> << <<o, "Init", "W">> >>]
       ELSE IF plan = "start"
       THEN [w |-> SetInstStatus(w2, n, "error", "start failed"),
             ret |-> "failed to start plugin",
             calls |-> << <<o, "Init", "W">>, <<o, "Start", "W">> >>]
       ELSE [w |-> SetInstStatus(w2, n, "running", ""),
             ret |-> "nil",
             calls |-> << <<o, "Init", "W">>, <<o, "Start", "W">> >>]

StopEnter(t, op, n, stopOk) ==
    /\ CanLock(t)
    /\ IF n \notin DOMAIN plugins
       THEN /\ Return(t, op, n, ErrPluginNotFound, "-", <<>>)
            /\ UNCHANGED <<plugins, pstatus, mu>>
       ELSE IF InstStatus(plugins, pstatus, n).Status # "running"
       THEN /\ Return(t, op, n, ErrPluginNotStarted, "-", <<>>)
            /\ UNCHANGED <<plugins, pstatus, mu>>
       ELSE LET o == plugins[n].Plugin
            IN IF ~stopOk
               THEN LET w == SetInstStatus(World, n, "error", "stop failed")
                    IN /\ plugins' = w.reg
                       /\ pstatus' = w.ps
                       /\ Return(t, op, n, "failed to stop plugin", "-",
                                 << <<o, "Stop", "W">> >>)
                       /\ UNCHANGED mu
               ELSE LET w == PluginStop(World, o)
                    IN /\ plugins' = w.reg
                       /\ pstatus' = w.ps
                       /\ mu' = t
                       /\ th' = [th EXCEPT ![t] = [@ EXCEPT !.pc = "save", !.op = op,
                                                            !.name = n]]
                       /\ evt' = Event(t, "step", n, "-", "-", << <<o, "Stop", "W">> >>)
    /\ UNCHANGED cfgFile
    /\ UNCHANGED notPlugin

StopPlugin(t, n) ==
    /\ th[t].pc = "idle"
    /\ \E stopOk \in BOOLEAN : StopEnter(t, "StopPlugin", n, stopOk)

\* StopPlugin after SavePluginConfig returned.
StopFinish(w, n) ==
    [w |-> SetInstStatus(w, n, "stopped", ""), ret |-> "nil", calls |-> <<>>]

(***************************************************************************)
(* Manager.LoadPluginConfig / Manager.SavePluginConfig: exported, called   *)
(* by a goroutine of its own (pc = "idle") or from inside StartPlugin      *)
(* (pc = "load") and StopPlugin (pc = "save").                             *)
(***************************************************************************)
LoadConfig(reg, n, ioOk) ==
    IF n \notin DOMAIN reg THEN [reg |-> reg, ret |-> ErrPluginNotFound]
    ELSE IF ~ioOk THEN [reg |-> reg, ret |-> "io error"]
    ELSE IF cfgFile[n] = "none" THEN [reg |-> reg, ret |-> "nil"]
    ELSE [reg |-> [reg EXCEPT ![n].Config = cfgFile[n]], ret |-> "nil"]

LoadPluginConfig(t) ==
    \E n \in Names, ioOk \in BOOLEAN :
        /\ th[t].pc \in {"idle", "load"}
        /\ th[t].pc = "load" => n = th[t].name
        /\ CanRLock(t)
        /\ LET l == LoadConfig(plugins, n, ioOk)
           IN IF th[t].pc = "idle"
              THEN /\ plugins' = l.reg
                   /\ Return(t, "LoadPluginConfig", n, l.ret, "-", <<>>)
                   /\ UNCHANGED <<pstatus, mu>>
              ELSE LET f == StartFinish([reg |-> l.reg, ps |-> pstatus], n, th[t].plan)
                   IN /\ plugins' = f.w.reg
                      /\ pstatus' = f.w.ps
                      /\ mu' = 0
                      /\ Return(t, th[t].op, n, f.ret, "-", f.calls)
        /\ UNCHANGED cfgFile
        /\ UNCHANGED notPlugin

SaveConfig(reg, n, ioOk) ==
    IF n \notin DOMAIN reg THEN [file |-> cfgFile, ret |-> ErrPluginNotFound]
    ELSE IF ~ioOk THEN [file |-> cfgFile, ret |-> "io error"]
    ELSE [file |-> [cfgFile EXCEPT ![n] = GetConfig(reg[n].Plugin)], ret |-> "nil"]

SavePluginConfig(t) ==
    \E n \in Names, ioOk \in BOOLEAN :
        /\ th[t].pc \in {"idle", "save"}
        /\ th[t].pc = "save" => n = th[t].name
        /\ CanRLock(t)
        /\ UNCHANGED notPlugin
        /\ LET s == SaveConfig(plugins, n, ioOk)
               c == IF n \in DOMAIN plugins
                    THEN << <<plugins[n].Plugin, "GetConfig", "none">> >> ELSE <<>>
           IN /\ cfgFile' = s.file
              /\ IF th[t].pc = "idle"
                 THEN /\ Return(t, "SavePluginConfig", n, s.ret, "-", c)
                      /\ UNCHANGED <<plugins, pstatus, mu>>
                 ELSE LET f == StopFinish(World, n)
                      IN /\ plugins' = f.w.reg
                         /\ pstatus' = f.w.ps
                         /\ mu' = 0
                         /\ Return(t, th[t].op, n, f.ret, "-", c)

(***************************************************************************)
(* Manager.StartAll / Manager.StopAll: snapshot of the names under RLock,  *)
(* then StartPlugin/StopPlugin for each, in map-iteration order.           *)
(***************************************************************************)
AllBegin(t, op) ==
    /\ th[t].pc = "idle"
    /\ CanRLock(t)
    /\ \E order \in Perms(DOMAIN plugins) :
          IF order = <<>>
          THEN Return(t, op, "-", "nil", "-", <<>>)
          ELSE /\ th' = [th EXCEPT ![t] = [Idle EXCEPT !.pc = "next", !.op = op,
                                                       !.todo = order]]
               /\ evt' = Event(t, "step", "-", "-", "-", <<>>)
    /\ UNCHANGED <<plugins, pstatus, cfgFile, mu>>
    /\ UNCHANGED notPlugin

StartAll(t) == AllBegin(t, "StartAll")

StopAll(t) == AllBegin(t, "StopAll")

AllNext(t) ==
    /\ th[t].pc = "next"
    /\ LET n == Head(th[t].todo)
       IN \E plan \in {"ok", "init", "start"}, stopOk \in BOOLEAN :
             IF th[t].op = "StartAll"
             THEN /\ stopOk
                  /\ StartEnter(t, "StartAll", n, plan)
             ELSE /\ plan = "ok"
                  /\ StopEnter(t, "StopAll", n, stopOk)

(***************************************************************************)
(* Manager.GetPluginStatus / Manager.GetAllPluginStatus                    *)
(***************************************************************************)
\* status := instance.Plugin.Status(); instance.Status = status
\* GetPluginStatus that serves instance.Status without asking the plugin.
CachedStatus(reg, ps, n) ==
    [reg |-> reg, res |-> InstStatus(reg, ps, n)]

PollStatus(reg, ps, n) ==
    [reg |-> [reg EXCEPT ![n].Aliased = TRUE], res |-> ps[reg[n].Plugin]]

GetPluginStatus(t, n) ==
    /\ th[t].pc = "idle"
    /\ CanRLock(t)
    /\ IF n \notin DOMAIN plugins
       THEN /\ Return(t, "GetPluginStatus", n, ErrPluginNotFound, "-", <<>>)
            /\ UNCHANGED plugins
       ELSE LET r == PollStatus(plugins, pstatus, n)
            IN /\ plugins' = r.reg
               /\ Return(t, "GetPluginStatus", n, "nil", r.res,
                         << <<plugins[n].Plugin, "Status", "R">> >>)
    /\ UNCHANGED <<pstatus, cfgFile, mu>>
    /\ UNCHANGED notPlugin

GetAllPluginStatus(t) ==
    /\ th[t].pc = "idle"
    /\ CanRLock(t)
    /\ \E order \in Perms(DOMAIN plugins) :
          /\ plugins' = [n \in DOMAIN plugins |-> PollStatus(plugins, pstatus, n).reg[n]]
          /\ Return(t, "GetAllPluginStatus", "-", "nil",
                    [n \in DOMAIN plugins |-> PollStatus(plugins, pstatus, n).res],
                    [i \in DOMAIN order |-> <<plugins[order[i]].Plugin, "Status", "R">>])
    /\ UNCHANGED <<pstatus, cfgFile, mu>>
    /\ UNCHANGED notPlugin

(***************************************************************************)
(* Manager.SendCommand / Manager.SendEvent                                 *)
(***************************************************************************)
\* what the plugin's HandleCommand / HandleEvent may return
CommandOutcomes == {[res |-> "result", err |-> "nil"],
                    [res |-> "-", err |-> ErrInvalidCommand]}

EventOutcomes == {[res |-> "-", err |-> "nil"],
                  [res |-> "-", err |-> "invalid event"]}

Dispatch(reg, ps, n, method, out) ==
    IF n \notin DOMAIN reg
    THEN [res |-> "-", err |-> ErrPluginNotFound, calls |-> <<>>]
    ELSE IF InstStatus(reg, ps, n).Status # "running"
    THEN [res |-> "-", err |-> ErrPluginNotStarted, calls |-> <<>>]
    ELSE [res |-> out.res, err |-> out.err,
          calls |-> << <<reg[n].Plugin, method, "none">> >>]

SendCommand(t, n) ==
    /\ th[t].pc = "idle"
    /\ CanRLock(t)
    /\ \E out \in CommandOutcomes :
          LET d == Dispatch(plugins, pstatus, n, "HandleCommand", out)
          IN Return(t, "SendCommand", n, d.err, [got |-> d.res, out |-> out], d.calls)
    /\ UNCHANGED <<plugins, pstatus, cfgFile, mu>>
    /\ UNCHANGED notPlugin

SendEvent(t, n) ==
    /\ th[t].pc = "idle"
    /\ CanRLock(t)
    /\ \E out \in EventOutcomes :
          LET d == Dispatch(plugins, pstatus, n, "HandleEvent", out)
          IN Return(t, "SendEvent", n, d.err, [got |-> d.res, out |-> out], d.calls)
    /\ UNCHANGED <<plugins, pstatus, cfgFile, mu>>
    /\ UNCHANGED notPlugin

(***************************************************************************)
(* Command executor                                                        *)
(***************************************************************************)
CommandTypeShell == "shell"

CommandTypePowerShell == "powershell"

CommandTypeContainer == "container"

\* Executor.workDir, the daemon's own current directory, os.Environ()
workDir == "/work"

Cwd == "/cwd"

Environ == <<"PATH=/bin">>

\* A script is what it does when run: how long it runs and its exit code.
SleepTime == 2

Scripts == {[dur |-> 0, code |-> 0], [dur |-> 0, code |-> 1],
            [dur |-> SleepTime, code |-> 0]}

Timeouts == {0, 1}

\* The commands a caller may submit; cmd.ID is the submitting goroutine's.
Commands(i) ==
    {[ID |-> i, Type |-> ty, Script |-> sc, WorkingDir |-> wd, Timeout |-> to,
      ContainerID |-> "", Env |-> env] :
        ty \in {CommandTypeShell, CommandTypePowerShell}, sc \in Scripts,
        wd \in {"", "/job"}, to \in Timeouts, env \in {<<>>, <<"K=v">>}}
    \cup
    {[ID |-> i, Type |-> CommandTypeContainer, Script |-> sc, WorkingDir |-> "",
      Timeout |-> to, ContainerID |-> c, Env |-> <<>>] :
        sc \in Scripts, to \in Timeouts, c \in {"", "ctr"}}
    \cup
    {[ID |-> i, Type |-> ty, Script |-> [dur |-> 0, code |-> 0],
      WorkingDir |-> "", Timeout |-> 1, ContainerID |-> "", Env |-> <<>>] :
        ty \in {"invalid_type", ""}}

\* what can go wrong before the process runs
Faults == {"none", "create", "write", "chmod", "launch"}

\* A fault ends Execute before Script, WorkingDir, Timeout and Env are
\* looked at, so one command per surface stands for all that meet it.
Calls(i) ==
    {[cmd |-> c, fault |-> "none"] : c \in Commands(i)}
    \cup
    {[cmd |-> c, fault |-> f] :
        c \in {d \in Commands(i) : /\ d.Script = [dur |-> 0, code |-> 0]
                                   /\ d.WorkingDir = "" /\ d.Env = <<>>
                                   /\ d.Timeout = 0
                                   /\ d.Type \in {CommandTypeShell, CommandTypePowerShell,
                                                  CommandTypeContainer}
                                   /\ d.Type = CommandTypeContainer => d.ContainerID # ""},
        f \in Faults \ {"none"}}

\* what the caller still holds of the command once Execute returned
Returned(cmd) == [cmd EXCEPT !.WorkingDir = "", !.Env = <<>>]

Result(id, success, code, err) ==
    [ID |-> id, Success |-> success, ExitCode |-> code, Error |-> err]

\* exec.Command(...) with Dir and Env set from the Command
PlainCmd(cmd) ==
    [Dir |-> IF cmd.Type = CommandTypeContainer THEN ""
             ELSE IF cmd.WorkingDir # "" THEN cmd.WorkingDir ELSE workDir,
     Env |-> IF cmd.Type = CommandTypeContainer THEN "nil" ELSE Environ \o cmd.Env,
     Ctx |-> FALSE]

\* if cmd.Timeout > 0 { execCmd = exec.CommandContext(ctx, execCmd.Path,
\* execCmd.Args[1:]...) }: a new exec.Cmd that has the path and the
\* arguments of the first one, and neither its Dir nor its Env.
ExecCmd(cmd) ==
    IF cmd.Timeout > 0
    THEN [Dir |-> "", Env |-> "nil", Ctx |-> TRUE]
    ELSE PlainCmd(cmd)

\* os/exec: an empty Dir is the caller's current directory, a nil Env is
\* the caller's environment.
Spawn(c) ==
    [dir |-> IF c.Dir = "" THEN Cwd ELSE c.Dir,
     env |-> IF c.Env = "nil" THEN Environ ELSE c.Env,
     ctx |-> c.Ctx, elapsed |-> 0, killed |-> FALSE]

NoProc == [dir |-> "-", env |-> <<>>, ctx |-> FALSE, elapsed |-> 0, killed |-> FALSE]

NoResult == Result(0, FALSE, 0, "")

NoCmd == [ID |-> 0, Type |-> "-", Script |-> [dur |-> 0, code |-> 0], WorkingDir |-> "",
          Timeout |-> 0, ContainerID |-> "", Env |-> <<>>]

\* made: createScriptFile returned a file to this call of Execute
ExecIdle ==
    [pc |-> "idle", cmd |-> NoCmd, proc |-> NoProc, result |-> NoResult, spawned |-> FALSE,
     made |-> FALSE]

\* err.Error() of what CombinedOutput returns for a process that exited
\* non-zero or was killed (an *exec.ExitError either way)
ExitStatus(code) == IF code = 0 THEN "" ELSE "exit status 1"

SignalKilled == "signal: killed"

\* fmt.Sprintf("unsupported command type: %s", cmd.Type)
UnsupportedType(ty) ==
    IF ty = "invalid_type" THEN "unsupported command type: invalid_type"
    ELSE "unsupported command type: "

ContainerIDRequired == "container ID is required for container commands"

\* a check that looks at the type only
ValidateTypeOnly(cmd) ==
    IF cmd.Type \notin {CommandTypeShell, CommandTypePowerShell, CommandTypeContainer}
    THEN UnsupportedType(cmd.Type)
    ELSE ""

\* The default case of the switch in Execute and the first check of
\* executeContainer: the error text, "" for a command that passes.
Validate(cmd) ==
    IF cmd.Type \notin {CommandTypeShell, CommandTypePowerShell, CommandTypeContainer}
    THEN UnsupportedType(cmd.Type)
    ELSE IF cmd.Type = CommandTypeContainer /\ cmd.ContainerID = ""
    THEN ContainerIDRequired
    ELSE ""

\* createScriptFile: os.CreateTemp fails, or io.WriteString fails and the
\* file is removed again, or the file is there.
createScriptFile(fs, i, fault) ==
    IF fault = "create" THEN [files |-> fs, err |-> "create temp: permission denied"]
    ELSE IF fault = "write"
    THEN [files |-> (fs \cup {i}) \ {i}, err |-> "write: no space left on device"]
    ELSE [files |-> fs \cup {i}, err |-> ""]

\* a removal that is skipped when the command failed
RemoveOnSuccess(fs, i, res) == IF res.Success THEN fs \ {i} ELSE fs

\* defer os.Remove(scriptFile)
RemoveScript(fs, i, res) == fs \ {i}

\* Execute up to the point where it waits for the process: the files after
\* createScriptFile, whether a file was made, and the Result if Execute
\* returns here (the deferred removal is the caller's next step).
Begin(fs, i, cmd, fault) ==
    LET made == createScriptFile(fs, i, fault)
    IN IF Validate(cmd) # ""
       THEN [done |-> TRUE, made |-> FALSE, files |-> fs,
             res |-> Result(cmd.ID, FALSE, 0, Validate(cmd))]
       ELSE IF made.err # ""
       THEN [done |-> TRUE, made |-> FALSE, files |-> made.files,
             res |-> Result(cmd.ID, FALSE, 0, made.err)]
       ELSE IF fault = "chmod" /\ cmd.Type = CommandTypeShell
       THEN [done |-> TRUE, made |-> TRUE, files |-> made.files,
             res |-> Result(cmd.ID, FALSE, 0, "chmod: operation not permitted")]
       ELSE IF fault = "launch"
       THEN [done |-> TRUE, made |-> TRUE, files |-> made.files,
             res |-> Result(cmd.ID, FALSE, 0, "exec: executable file not found")]
       ELSE [done |-> FALSE, made |-> TRUE, files |-> made.files, res |-> NoResult]

Execute(i) ==
    /\ ex[i].pc \in {"idle", "done"}
    /\ \E call \in Calls(i) :
          LET cmd == call.cmd
              b   == Begin(files, i, cmd, call.fault)
          IN IF b.done
             THEN \* returned before any process ran
                  /\ ex' = [ex EXCEPT ![i] = [ExecIdle EXCEPT !.pc = "done",
                                                              !.cmd = Returned(cmd),
                                                              !.result = b.res,
                                                              !.made = b.made]]
                  /\ files' = IF b.made THEN RemoveScript(b.files, i, b.res) ELSE b.files
             ELSE /\ ex' = [ex EXCEPT ![i] = [ExecIdle EXCEPT !.pc = "wait", !.cmd = cmd,
                                                              !.proc = Spawn(ExecCmd(cmd)),
                                                              !.spawned = TRUE,
                                                              !.made = TRUE]]
                  /\ files' = b.files
    /\ UNCHANGED <<running, exlast>>
    /\ UNCHANGED notExecutor

\* time passes for a running process
Tick(i) ==
    /\ ex[i].pc = "wait"
    /\ ~ex[i].proc.killed
    /\ ex[i].proc.elapsed < ex[i].cmd.Script.dur
    /\ ex[i].proc.ctx => ex[i].proc.elapsed < ex[i].cmd.Timeout
    /\ ex' = [ex EXCEPT ![i].proc.elapsed = @ + 1]
    /\ UNCHANGED <<running, files, exlast>>
    /\ UNCHANGED notExecutor

\* context.WithTimeout expires: os/exec kills the process
Deadline(i) ==
    /\ ex[i].pc = "wait"
    /\ ex[i].proc.ctx
    /\ ~ex[i].proc.killed
    /\ ex[i].proc.elapsed >= ex[i].cmd.Timeout
    /\ ex[i].proc.elapsed < ex[i].cmd.Script.dur
    /\ ex' = [ex EXCEPT ![i].proc.killed = TRUE]
    /\ UNCHANGED <<running, files, exlast>>
    /\ UNCHANGED notExecutor

\* CombinedOutput returns; the rest of executeShell and of Execute
Finish(cmd, proc) ==
    IF proc.killed THEN Result(cmd.ID, FALSE, -1, SignalKilled)
    ELSE IF cmd.Script.code # 0
    THEN Result(cmd.ID, FALSE, cmd.Script.code, ExitStatus(cmd.Script.code))
    ELSE Result(cmd.ID, TRUE, 0, "")

Complete(i) ==
    /\ ex[i].pc = "wait"
    /\ ex[i].proc.killed \/ ex[i].proc.elapsed = ex[i].cmd.Script.dur
    /\ ex' = [ex EXCEPT ![i].pc = "done", ![i].cmd = Returned(@),
                         ![i].proc = [@ EXCEPT !.dir = "-", !.env = <<>>],
                         ![i].result = Finish(ex[i].cmd, ex[i].proc)]
    /\ files' = RemoveScript(files, i, Finish(ex[i].cmd, ex[i].proc))
    /\ UNCHANGED <<running, exlast>>
    /\ UNCHANGED notExecutor

\* cmd.Process.Kill() on the handles the registry holds
Kill(e, ids) ==
    [i \in ExecSlots |-> IF i \in ids /\ e[i].pc = "wait"
                         THEN [e[i] EXCEPT !.proc.killed = TRUE] ELSE e[i]]

StopCommand(id) ==
    /\ ex' = Kill(ex, running \cap {id})
    /\ running' = running \ {id}
    /\ exlast' = [op |-> "StopCommand", ret |-> "nil", list |-> {}]
    /\ UNCHANGED files
    /\ UNCHANGED notExecutor

ListRunningCommands ==
    /\ exlast' = [op |-> "ListRunningCommands", ret |-> "nil", list |-> running]
    /\ UNCHANGED <<ex, running, files>>
    /\ UNCHANGED notExecutor

ExecutorStop ==
    /\ ex' = Kill(ex, running)
    /\ running' = {}
    /\ exlast' = [op |-> "Stop", ret |-> "nil", list |-> {}]
    /\ UNCHANGED files
    /\ UNCHANGED notExecutor

ExecutorNew ==
    /\ ex = [i \in ExecSlots |-> ExecIdle]
    /\ running = {}
    /\ files = {}
    /\ exlast = [op |-> "none", ret |-> "nil", list |-> {}]

(***************************************************************************)
(* Connection to the control plane: websocket.Client                       *)
(***************************************************************************)
NotConnected == "not connected to server"

SendFailed == "failed to send message"

\* NewClient: no connection yet
ClientNew == [connected |-> FALSE, conn |-> "nil"]

IsConnected(c) == c.connected /\ c.conn # "nil"

\* sync.RWMutex: Lock() waits until no goroutine holds the mutex either way;
\* RLock() waits while a goroutine holds Lock() or waits in it.
MuFree == [w |-> {}, r |-> {}, pend |-> {}]

MuCanLock(m) == m.w = {} /\ m.r = {}

MuWait(m, t) == [m EXCEPT !.pend = @ \cup {t}]

MuLock(m, t) == [m EXCEPT !.w = {t}, !.pend = @ \ {t}]

\* Lock() directly followed by Unlock()
MuPass(m, t) == [m EXCEPT !.pend = @ \ {t}]

MuUnlock(m, t) == [m EXCEPT !.w = {}]

MuCanRLock(m) == m.w = {} /\ m.pend = {}

MuRLock(m, t) == [m EXCEPT !.r = @ \cup {t}]

MuRUnlock(m, t) == [m EXCEPT !.r = @ \ {t}]

\* disc: Disconnect had returned when the call was made
SendIdle == [pc |-> "idle", ret |-> "none", disc |-> FALSE]

\* if !c.connected || c.conn == nil
SendRefused(c) == ~c.connected \/ c.conn = "nil"

\* c.conn.WriteMessage: fails on a broken connection, may break a sound one;
\* on failure SendMessage sets c.connected = false
WriteOutcomes(c) == IF c.conn = "open" THEN {TRUE, FALSE} ELSE {FALSE}

WriteMessage(c, ok) == IF ok THEN c ELSE [connected |-> FALSE, conn |-> "failed"]

\* Client.Send = Client.SendMessage, up to the call of conn.WriteMessage
Send(s) ==
    /\ snd[s].pc = "idle"
    /\ MuCanRLock(wmu)
    /\ IF SendRefused(ws)
       THEN /\ snd' = [snd EXCEPT ![s] = [pc |-> "idle", ret |-> NotConnected,
                                          disc |-> stp.done]]
            /\ wmu' = wmu
       ELSE /\ snd' = [snd EXCEPT ![s] = [pc |-> "write", ret |-> "none",
                                          disc |-> stp.done]]
            /\ wmu' = MuRLock(wmu, s)
    /\ UNCHANGED <<ws, lp, stp, ctxDone>>
    /\ UNCHANGED notAgent

\* conn.WriteMessage returns, and SendMessage after it
SendReturn(s) ==
    /\ snd[s].pc = "write"
    /\ \E ok \in WriteOutcomes(ws) :
          /\ ws' = WriteMessage(ws, ok)
          /\ snd' = [snd EXCEPT ![s].pc = "idle",
                                ![s].ret = IF ok THEN "nil" ELSE SendFailed]
    /\ wmu' = MuRUnlock(wmu, s)
    /\ UNCHANGED <<lp, stp, ctxDone>>
    /\ UNCHANGED notAgent

\* Client.Disconnect, which Agent.Stop calls (as Client.Stop) once it has
\* cancelled the context: waits for the lock, closes and forgets the
\* connection
Disconnect ==
    /\ ctxDone
    /\ stp.pc = "idle" \/ MuCanLock(wmu)
    /\ IF MuCanLock(wmu)
       THEN /\ ws' = [connected |-> FALSE, conn |-> "nil"]
            /\ wmu' = MuPass(wmu, StopT)
            /\ stp' = [pc |-> "idle", done |-> TRUE]
       ELSE /\ ws' = ws
            /\ wmu' = MuWait(wmu, StopT)
            /\ stp' = [stp EXCEPT !.pc = "wait"]
    /\ UNCHANGED <<lp, snd, ctxDone>>
    /\ UNCHANGED notAgent

\* a.cancel() in Agent.Stop
Cancel ==
    /\ ~ctxDone
    /\ ctxDone' = TRUE
    /\ UNCHANGED <<ws, wmu, lp, snd, stp>>
    /\ UNCHANGED notAgent

(***************************************************************************)
(* Message router: Agent.handleMessage and its handlers                    *)
(***************************************************************************)
\* registerBuiltinPlugins: Register one after the other, stop at an error
RECURSIVE RegisterAll(_, _)
RegisterAll(reg, objs) ==
    IF objs = <<>> THEN reg
    ELSE LET r == RegisterW(reg, Head(objs))
         IN IF r.ret # "nil" THEN r.reg ELSE RegisterAll(r.reg, Tail(objs))

registerBuiltinPlugins == RegisterAll(<<>>, Builtins)

\* A payload is what the handlers ask of it: whether it is a map, and what
\* its "command" and "plugin" fields hold ("absent", "other" for a value
\* that is not a string, else the string).
NonMap == [map |-> FALSE, command |-> "absent", plugin |-> "absent"]

Payloads ==
    {NonMap} \cup {[map |-> TRUE, command |-> c, plugin |-> "absent"] :
                      c \in {"absent", "str", "other"}}

PluginPayloads ==
    {[map |-> TRUE, command |-> c, plugin |-> p] :
        c \in {"absent", "str"}, p \in {"other", "updater", "nope"}}

MsgTypes == {"command", "schedule", "file_transfer", "update", "plugin", "unknown", ""}

Messages ==
    {[type |-> t, data |-> d] : t \in MsgTypes \ {"plugin"}, d \in Payloads}
    \cup {[type |-> "plugin", data |-> d] : d \in Payloads \cup PluginPayloads}

NoMsg == [type |-> "-", data |-> NonMap]

NoEnv == [type |-> "none", plugin |-> "-", command |-> "-", result |-> "-"]

NoOut == [res |-> "-", err |-> "-"]

\* what a handler did: the object it called (a plugin, "executor", "none"),
\* the command it passed, what the callee returned, the envelope it hands to
\* wsClient.Send, its own return value, whether it panicked
Routed(target, command, out, send, ret) ==
    [target |-> target, command |-> command, out |-> out, send |-> send, ret |-> ret,
     panic |-> FALSE]

Refused(ret) == Routed("none", "-", NoOut, NoEnv, ret)

Panic == [Refused("panic") EXCEPT !.panic = TRUE]

\* Executor.Execute from start to return, for a caller that waits
ExecuteSync(cmd, fault) ==
    LET b == Begin({}, 0, cmd, fault)
        p == Spawn(ExecCmd(cmd))
    IN IF b.done THEN b.res
       ELSE Finish(cmd, [p EXCEPT !.elapsed = cmd.Script.dur,
                                  !.killed = p.ctx /\ cmd.Script.dur > cmd.Timeout])

\* handleCommand: dataMap["command"].(string) panics unless the field holds
\* a string
handleCommand(m, sc) ==
    IF ~m.data.map THEN Refused("invalid command data format")
    ELSE IF m.data.command # "str" THEN Panic
    ELSE LET cmd == [ID |-> 0, Type |-> CommandTypeShell, Script |-> sc,
                     WorkingDir |-> workDir, Timeout |-> 300, ContainerID |-> "",
                     Env |-> <<>>]
             res == ExecuteSync(cmd, "none")
         IN Routed("executor", "str", [res |-> "-", err |-> res.Error], NoEnv,
                   IF res.Success THEN "nil" ELSE "command execution failed")

\* handleSchedule and handleUpdate: the plugin registered under `name`, the
\* command of the payload or `dflt`, the result sent as `resultType`
handleDomain(reg, m, name, dflt, resultType, out) ==
    IF name \notin DOMAIN reg
    THEN Refused(IF name = "scheduler" THEN "scheduler plugin not available"
                                       ELSE "updater plugin not available")
    ELSE IF ~m.data.map
    THEN Refused(IF name = "scheduler" THEN "invalid schedule data format"
                                       ELSE "invalid update data format")
    ELSE LET command == IF m.data.command = "str" THEN "str" ELSE dflt
         IN IF out.err # "nil"
            THEN Routed(reg[name].Plugin, command, out, NoEnv, out.err)
            ELSE Routed(reg[name].Plugin, command, out,
                        [type |-> resultType, plugin |-> "-", command |-> command,
                         result |-> out.res], "nil")

handleSchedule(reg, m, out) ==
    handleDomain(reg, m, "scheduler", "add_task", "schedule_result", out)

handleUpdate(reg, m, out) ==
    handleDomain(reg, m, "updater", "check_update", "update_result", out)

\* handleFileTransfer: data.(map[string]interface{}) panics on another
\* payload; the result of HandleCommand is dropped
handleFileTransfer(reg, m, out) ==
    IF "filetransfer" \notin DOMAIN reg THEN Refused("filetransfer plugin not available")
    ELSE IF ~m.data.map THEN Panic
    ELSE Routed(reg["filetransfer"].Plugin, "upload", out, NoEnv, out.err)

handlePluginCommand(reg, m, out) ==
    IF ~m.data.map THEN Refused("invalid plugin command data")
    ELSE IF m.data.plugin \in {"absent", "other"} THEN Refused("plugin name not specified")
    ELSE IF m.data.command # "str" THEN Refused("plugin command not specified")
    ELSE IF m.data.plugin \notin DOMAIN reg THEN Refused("plugin not found")
    ELSE IF out.err # "nil"
    THEN Routed(reg[m.data.plugin].Plugin, "str", out, NoEnv, out.err)
    ELSE Routed(reg[m.data.plugin].Plugin, "str", out,
                [type |-> "plugin_result", plugin |-> m.data.plugin, command |-> "str",
                 result |-> out.res], "nil")

handleMessageStrict(reg, m, out, sc) ==
    CASE m.type = "command" -> handleCommand(m, sc)
      [] m.type = "schedule" -> handleSchedule(reg, m, out)
      [] m.type = "file_transfer" -> handleFileTransfer(reg, m, out)
      [] m.type = "update" -> handleUpdate(reg, m, out)
      [] m.type = "plugin" -> handlePluginCommand(reg, m, out)
      [] OTHER -> Refused("unknown message type")

handleMessage(reg, m, out, sc) ==
    CASE m.type = "command" -> handleCommand(m, sc)
      [] m.type = "schedule" -> handleSchedule(reg, m, out)
      [] m.type = "file_transfer" -> handleFileTransfer(reg, m, out)
      [] m.type = "update" -> handleUpdate(reg, m, out)
      [] m.type = "plugin" -> handlePluginCommand(reg, m, out)
      [] OTHER -> Refused("nil")

\* the handlers that go through Manager.GetPlugin, which takes m.mu.RLock()
UsesGetPlugin(m) ==
    \/ m.type \in {"schedule", "file_transfer", "update"}
    \/ m.type = "plugin" /\ m.data.map /\ m.data.plugin \notin {"absent", "other"}
                         /\ m.data.command = "str"

(***************************************************************************)
(* The receive loop: Agent.runWebSocketClient                              *)
(***************************************************************************)
\* last : how the last Connect or Receive of the loop ended
\* failed : a dial or a read has failed and no dial was attempted since
\* hm : the message handled last and what its handler did
NoHM == [msg |-> NoMsg, did |-> Refused("-")]

LoopStart == [pc |-> "top", msg |-> NoMsg, last |-> "none", failed |-> FALSE, hm |-> NoHM]

\* Client.Connect up to the dial: returns at once when c.connected
Connect ==
    /\ lp.pc \in {"top", "connect"}
    /\ lp.pc = "top" => ~ctxDone
    /\ IF MuCanLock(wmu)
       THEN IF ws.connected
            THEN /\ lp' = [lp EXCEPT !.pc = "inner", !.last = "connected"]
                 /\ wmu' = MuPass(wmu, LoopT)
            ELSE /\ lp' = [lp EXCEPT !.pc = "dial", !.failed = FALSE]
                 /\ wmu' = MuLock(wmu, LoopT)
       ELSE /\ lp.pc = "top"
            /\ lp' = [lp EXCEPT !.pc = "connect"]
            /\ wmu' = MuWait(wmu, LoopT)
    /\ UNCHANGED <<ws, snd, stp, ctxDone>>
    /\ UNCHANGED notAgent

\* websocket.DefaultDialer.Dial returns, and Connect after it
Dial ==
    /\ lp.pc = "dial"
    /\ \E ok \in BOOLEAN :
          IF ok
          THEN /\ ws' = [connected |-> TRUE, conn |-> "open"]
               /\ lp' = [lp EXCEPT !.pc = "inner", !.last = "connected"]
          ELSE /\ ws' = ws
               /\ lp' = [lp EXCEPT !.pc = "sleep", !.last = "dialerr", !.failed = TRUE]
    /\ wmu' = MuUnlock(wmu, LoopT)
    /\ UNCHANGED <<snd, stp, ctxDone>>
    /\ UNCHANGED notAgent

\* time.Sleep(5 * time.Second); continue
Sleep ==
    /\ lp.pc = "sleep"
    /\ lp' = [lp EXCEPT !.pc = "top"]
    /\ UNCHANGED <<ws, wmu, snd, stp, ctxDone>>
    /\ UNCHANGED notAgent

\* case <-a.ctx.Done(): return, in either select
LoopExit ==
    /\ lp.pc \in {"top", "inner"}
    /\ ctxDone
    /\ lp' = [lp EXCEPT !.pc = "exit"]
    /\ UNCHANGED <<ws, wmu, snd, stp, ctxDone>>
    /\ UNCHANGED notAgent

\* Client.Receive up to conn.ReadMessage, which it calls holding RLock().
\* An error returns into "break", which leaves the select and not the
\* inner for: the loop calls Receive again.
Receive ==
    /\ lp.pc = "inner"
    /\ ~ctxDone
    /\ MuCanRLock(wmu)
    /\ IF ~ws.connected \/ ws.conn = "nil"
       THEN /\ lp' = [lp EXCEPT !.last = "notconnected", !.hm = NoHM]
            /\ wmu' = wmu
       ELSE /\ lp' = [lp EXCEPT !.pc = "read", !.hm = NoHM]
            /\ wmu' = MuRLock(wmu, LoopT)
    /\ UNCHANGED <<ws, snd, stp, ctxDone>>
    /\ UNCHANGED notAgent

\* conn.ReadMessage returns, and Receive after it: a message, a message
\* json.Unmarshal rejects, or a read error (which Receive returns leaving
\* c.connected as it is).  A read on a connection that has already returned
\* a read error returns the error again or, the websocket library counting
\* such reads, panics.
ReadMessage ==
    /\ lp.pc = "read"
    /\ \/ /\ ws.conn = "open"
          /\ \E m \in Messages : lp' = [lp EXCEPT !.pc = "handle", !.msg = m, !.last = "msg"]
          /\ ws' = ws
       \/ /\ ws.conn = "open"
          /\ lp' = [lp EXCEPT !.pc = "inner", !.last = "decodeerr"]
          /\ ws' = ws
       \/ /\ lp' = [lp EXCEPT !.pc = "inner", !.last = "readerr", !.failed = TRUE]
          /\ ws' = [ws EXCEPT !.conn = "failed"]
       \/ /\ ws.conn = "failed"
          /\ lp.last = "readerr"
          /\ lp' = [lp EXCEPT !.pc = "crashed", !.last = "readpanic"]
          /\ ws' = ws
    /\ wmu' = MuRUnlock(wmu, LoopT)
    /\ UNCHANGED <<snd, stp, ctxDone>>
    /\ UNCHANGED notAgent

\* a.handleMessage(msgType, data), up to the conn.WriteMessage of the result
\* it sends; a panic in the handler ends the process
HandleMessage ==
    /\ lp.pc = "handle"
    /\ UsesGetPlugin(lp.msg) => CanRLock(LoopT)
    /\ \E out \in CommandOutcomes, sc \in {[dur |-> 0, code |-> 0], [dur |-> 0, code |-> 1]} :
          LET did == handleMessage(plugins, lp.msg, out, sc)
          IN IF did.panic
             THEN /\ lp' = [lp EXCEPT !.pc = "crashed", !.last = "handlerpanic",
                                      !.hm = [msg |-> lp.msg, did |-> did]]
                  /\ wmu' = wmu
             ELSE IF did.send = NoEnv
             THEN /\ lp' = [lp EXCEPT !.pc = "inner", !.msg = NoMsg,
                                      !.hm = [msg |-> lp.msg, did |-> did]]
                  /\ wmu' = wmu
             ELSE /\ MuCanRLock(wmu)
                  /\ IF SendRefused(ws)
                     THEN /\ lp' = [lp EXCEPT !.pc = "inner", !.msg = NoMsg,
                                       !.hm = [msg |-> lp.msg,
                                               did |-> [did EXCEPT !.ret = NotConnected]]]
                          /\ wmu' = wmu
                     ELSE /\ lp' = [lp EXCEPT !.pc = "hwrite",
                                       !.hm = [msg |-> lp.msg, did |-> did]]
                          /\ wmu' = MuRLock(wmu, LoopT)
    /\ UNCHANGED <<ws, snd, stp, ctxDone>>
    /\ UNCHANGED notAgent

\* conn.WriteMessage of the handler's result returns; the handler returns
\* what Send returned
HandleReturn ==
    /\ lp.pc = "hwrite"
    /\ \E ok \in WriteOutcomes(ws) :
          /\ ws' = WriteMessage(ws, ok)
          /\ lp' = [lp EXCEPT !.pc = "inner", !.msg = NoMsg,
                              !.hm.did.ret = IF ok THEN "nil" ELSE SendFailed]
    /\ wmu' = MuRUnlock(wmu, LoopT)
    /\ UNCHANGED <<snd, stp, ctxDone>>
    /\ UNCHANGED notAgent

\* agent.New(): the components as initComponents leaves them; the registry
\* holds the built-in plugins and whatever plugins were registered under the
\* names the router looks up
AgentNew ==
    /\ ws = ClientNew
    /\ wmu = MuFree
    /\ lp = LoopStart
    /\ snd = [s \in Senders |-> SendIdle]
    /\ stp = [pc |-> "idle", done |-> FALSE]
    /\ ctxDone = FALSE

(***************************************************************************)
(* State store: state.Manager                                              *)
(***************************************************************************)
StoreThreads == 1..MaxStoreThreads

\* IsHealthy: 5*time.Minute
StaleAfter == 5

\* time.Time{} ; time.Now() counts minutes and the process boots late enough
\* for the zero time to be older than the staleness window
ZeroTime == 0

\* the time that passes in one step of the clock: up to the staleness window
\* or just beyond it
Lapses == {StaleAfter, StaleAfter + 1}

Boot == StaleAfter + 1

\* Status.SystemInfo: a nil map, or a map told by its "cpu_usage" entry (a map
\* with no entry is an empty one)
NilInfo == [nil |-> TRUE, hasCpu |-> FALSE, cpu |-> 0]

CpuInfo == [nil |-> FALSE, hasCpu |-> TRUE, cpu |-> 2]

\* the zero value of Status (memory_usage and disk_usage go the way of
\* cpu_usage and are left out)
ZeroStatus ==
    [AgentID |-> "", Version |-> "", Status |-> "", StartTime |-> ZeroTime,
     LastHeartbeat |-> ZeroTime, SystemInfo |-> NilInfo, RunningTasks |-> 0,
     TotalTasks |-> 0, Uptime |-> 0, CPUUsage |-> 0]

\* the record NewManager builds before loading
DefaultStatus(now) == [ZeroStatus EXCEPT !.Status = "stopped", !.StartTime = now]

MarshalNoCounts(rec) ==
    [agent_id |-> rec.AgentID, version |-> rec.Version, status |-> rec.Status,
     start_time |-> rec.StartTime, last_heartbeat |-> rec.LastHeartbeat,
     system_info |-> IF rec.SystemInfo.hasCpu THEN rec.SystemInfo ELSE NilInfo,
     running_tasks |-> 0, total_tasks |-> 0,
     uptime |-> rec.Uptime, cpu_usage |-> rec.CPUUsage]

\* json.MarshalIndent(m.status): every field under its json name, system_info
\* left out (omitempty) when the map is nil or empty
Marshal(rec) ==
    [agent_id |-> rec.AgentID, version |-> rec.Version, status |-> rec.Status,
     start_time |-> rec.StartTime, last_heartbeat |-> rec.LastHeartbeat,
     system_info |-> IF rec.SystemInfo.hasCpu THEN rec.SystemInfo ELSE NilInfo,
     running_tasks |-> rec.RunningTasks, total_tasks |-> rec.TotalTasks,
     uptime |-> rec.Uptime, cpu_usage |-> rec.CPUUsage]

\* status.json: absent, unreadable, not JSON ("garbage"), JSON whose
\* running_tasks is not a number ("mistyped"), or a JSON object
NoFile == [kind |-> "missing", doc |-> Marshal(ZeroStatus)]

File(kind, doc) == [kind |-> kind, doc |-> doc]

\* json.Unmarshal(data, &status) into a zero Status: a syntax error decodes
\* nothing; a type error skips the mistyped field, decodes the others and is
\* returned at the end
Unmarshal(file) ==
    LET d == file.doc
        all == [AgentID |-> d.agent_id, Version |-> d.version, Status |-> d.status,
                StartTime |-> d.start_time, LastHeartbeat |-> d.last_heartbeat,
                SystemInfo |-> d.system_info, RunningTasks |-> d.running_tasks,
                TotalTasks |-> d.total_tasks, Uptime |-> d.uptime,
                CPUUsage |-> d.cpu_usage]
    IN CASE file.kind = "garbage" ->
              [err |-> "failed to unmarshal status", status |-> ZeroStatus]
         [] file.kind = "mistyped" ->
              [err |-> "failed to unmarshal status",
               status |-> [all EXCEPT !.RunningTasks = 0]]
         [] OTHER -> [err |-> "nil", status |-> all]

loadStatusLeaky(rec, file) ==
    IF file.kind = "missing" THEN [err |-> "nil", status |-> rec]
    ELSE IF file.kind = "unreadable"
    THEN [err |-> "failed to read status file", status |-> rec]
    ELSE Unmarshal(file)

\* Manager.loadStatus: m.status is replaced only when the file was read and
\* decoded without error
loadStatus(rec, file) ==
    IF file.kind = "missing" THEN [err |-> "nil", status |-> rec]
    ELSE IF file.kind = "unreadable"
    THEN [err |-> "failed to read status file", status |-> rec]
    ELSE LET u == Unmarshal(file)
         IN IF u.err # "nil" THEN [err |-> u.err, status |-> rec]
            ELSE [err |-> "nil", status |-> u.status]

\* NewManager(dataDir), the directory made: the error of loadStatus is logged
NewManager(file, now) ==
    [status |-> loadStatus(DefaultStatus(now), file).status, startTime |-> now]

WriteFaults == {"none", "short"}

\* Manager.saveStatus: os.WriteFile truncates the file and writes; a write that
\* fails leaves a file cut short
saveStatus(rec, file, fault) ==
    IF fault = "short"
    THEN [err |-> "failed to write status file", file |-> File("garbage", Marshal(ZeroStatus))]
    ELSE [err |-> "nil", file |-> File("doc", Marshal(rec))]

\* the calls of the mutators, with their arguments
Call(op, s, info) == [op |-> op, s |-> s, info |-> info]

StoreCalls ==
    {Call(op, "", NilInfo) : op \in {"Start", "Stop", "UpdateTaskCount", "UpdateHeartbeat"}}
    \cup {Call("SetAgentID", "a1", NilInfo), Call("SetVersion", "v1", NilInfo)}
    \cup {Call("UpdateSystemInfo", "", CpuInfo)}

\* UpdateTaskCount(running, total) of the calls above
TaskCount == [running |-> 1, total |-> 2]

StateStart(rec, now) ==
    [rec EXCEPT !.Status = "running", !.StartTime = now, !.LastHeartbeat = now]

StateStop(rec) == [rec EXCEPT !.Status = "stopped"]

UpdateSystemInfo(rec, info, now) ==
    [rec EXCEPT !.SystemInfo = info, !.LastHeartbeat = now,
                !.CPUUsage = IF info.hasCpu THEN info.cpu ELSE @]

UpdateTaskCount(rec, nrunning, ntotal, now) ==
    [rec EXCEPT !.RunningTasks = nrunning, !.TotalTasks = ntotal, !.LastHeartbeat = now]

UpdateHeartbeat(rec, now) == [rec EXCEPT !.LastHeartbeat = now]

SetAgentID(rec, id) == [rec EXCEPT !.AgentID = id]

SetVersionDropped(rec, version) == rec

SetVersion(rec, version) == [rec EXCEPT !.Version = version]

\* the in-memory part of a mutator, done under m.mu.Lock()
Mutation(rec, c, now) ==
    CASE c.op = "Start" -> StateStart(rec, now)
      [] c.op = "Stop" -> StateStop(rec)
      [] c.op = "UpdateSystemInfo" -> UpdateSystemInfo(rec, c.info, now)
      [] c.op = "UpdateTaskCount" ->
           UpdateTaskCount(rec, TaskCount.running, TaskCount.total, now)
      [] c.op = "UpdateHeartbeat" -> UpdateHeartbeat(rec, now)
      [] c.op = "SetAgentID" -> SetAgentID(rec, c.s)
      [] OTHER -> SetVersion(rec, c.s)

\* Manager.GetStatus: writes the uptime into the record and returns it
GetStatusOf(m, now) == [m.status EXCEPT !.Uptime = now - m.startTime]

IsHealthyAnyStatus(rec, now) ==
    [healthy |-> ~(now - rec.LastHeartbeat > StaleAfter), status |-> rec]

\* Manager.IsHealthy: what it returns and the record it leaves
IsHealthyOf(rec, now) ==
    [healthy |-> IF now - rec.LastHeartbeat > StaleAfter THEN FALSE
                 ELSE IF rec.Status # "running" THEN FALSE
                 ELSE TRUE,
     status |-> rec]

StoreIdle == [pc |-> "idle", call |-> Call("none", "", NilInfo)]

NoStoreEvent ==
    [op |-> "none", call |-> Call("none", "", NilInfo), ret |-> "nil", healthy |-> FALSE,
     got |-> ZeroStatus]

\* m.mu is held by the goroutine that is inside a mutator
StoreLocked == \E t \in StoreThreads : sth[t].pc = "save"

\* a mutator up to its saveStatus: Lock(), the assignments
Mutate(t) ==
    /\ sth[t].pc = "idle"
    /\ ~StoreLocked
    /\ \E c \in StoreCalls :
          /\ sm' = [sm EXCEPT !.status = Mutation(sm.status, c, clk)]
          /\ sth' = [sth EXCEPT ![t] = [pc |-> "save", call |-> c]]
    /\ UNCHANGED <<disk, clk, sevt, sgh>>
    /\ UNCHANGED notState

\* saveStatus and the return of the mutator: only Start returns the error
SaveStatus(t) ==
    /\ sth[t].pc = "save"
    /\ \E fault \in WriteFaults :
          LET r == saveStatus(sm.status, disk, fault)
          IN /\ disk' = r.file
             /\ sgh' = [sgh EXCEPT !.failed = @ \/ r.err # "nil"]
             /\ sevt' = [NoStoreEvent EXCEPT
                            !.op = sth[t].call.op, !.call = sth[t].call,
                            !.ret = IF sth[t].call.op = "Start" THEN r.err ELSE "nil"]
    /\ sth' = [sth EXCEPT ![t] = StoreIdle]
    /\ UNCHANGED <<sm, clk>>
    /\ UNCHANGED notState

GetStatus(t) ==
    /\ sth[t].pc = "idle"
    /\ ~StoreLocked
    /\ sm' = [sm EXCEPT !.status = GetStatusOf(sm, clk)]
    /\ sevt' = [NoStoreEvent EXCEPT !.op = "GetStatus", !.got = GetStatusOf(sm, clk)]
    /\ UNCHANGED <<disk, clk, sth, sgh>>
    /\ UNCHANGED notState

IsHealthy(t) ==
    /\ sth[t].pc = "idle"
    /\ ~StoreLocked
    /\ sevt' = [NoStoreEvent EXCEPT !.op = "IsHealthy",
                                    !.healthy = IsHealthyOf(sm.status, clk).healthy]
    /\ sm' = [sm EXCEPT !.status = IsHealthyOf(sm.status, clk).status]
    /\ UNCHANGED <<disk, clk, sth, sgh>>
    /\ UNCHANGED notState

\* time passes
ClockTick ==
    /\ \E d \in Lapses :
          /\ clk + d <= Boot + MaxTicks * (StaleAfter + 1)
          /\ clk' = clk + d
    /\ UNCHANGED <<sm, disk, sth, sevt, sgh>>
    /\ UNCHANGED notState

\* the process ends and a new one constructs its store on the same directory
Restart ==
    /\ \A t \in StoreThreads : sth[t].pc = "idle"
    /\ sm' = NewManager(disk, clk)
    /\ sevt' = [NoStoreEvent EXCEPT !.op = "NewManager"]
    /\ sgh' = [failed |-> FALSE]
    /\ UNCHANGED <<disk, clk, sth>>
    /\ UNCHANGED notState

\* the files a first construction may find: none, or one that does not load
\* (a file that loads is what a store leaves behind, see Restart)
FoundFiles ==
    {NoFile, File("unreadable", Marshal(ZeroStatus)), File("garbage", Marshal(ZeroStatus))}
    \cup {File(k, Marshal([ZeroStatus EXCEPT !.AgentID = "a2", !.Version = "v1",
                                             !.Status = "running", !.RunningTasks = 1,
                                             !.TotalTasks = 2, !.LastHeartbeat = Boot]))
            : k \in {"mistyped"}}

\* a store nobody uses
StoreQuiet ==
    /\ disk = NoFile
    /\ clk = Boot
    /\ sm = NewManager(NoFile, Boot)
    /\ sth = [t \in StoreThreads |-> StoreIdle]
    /\ sevt = NoStoreEvent
    /\ sgh = [failed |-> FALSE]

(***************************************************************************)
(* Agent.Start / Agent.Stop                                                *)
(***************************************************************************)
\* the goroutine that calls Agent.Start (it is the one inside the plugin
\* manager), the one that calls Agent.Stop
StartT == 1

StopCaller == 2

LifeNew ==
    [start |-> "idle", sret |-> "-", stop |-> "idle", amu |-> 0, running |-> FALSE,
     looping |-> FALSE, hb |-> "none"]

\* for name := range m.plugins: the range starts at any plugin; the rest
\* follows in one order
RangeOrders(reg) ==
    IF DOMAIN reg = {} THEN {<<>>}
    ELSE {<<n>> \o (CHOOSE r \in Perms(DOMAIN reg \ {n}) : TRUE) : n \in DOMAIN reg}

\* Agent.Start up to the first StartPlugin of pluginMgr.StartAll(): a.mu is
\* taken, stateMgr.Start() (whose error Start returns), the two goroutines,
\* executor.Start()
AgentStart ==
    /\ life.start = "idle"
    /\ life.amu = 0
    /\ ~life.running
    /\ ~StoreLocked
    /\ CanRLock(StartT)
    /\ \E fault \in WriteFaults, order \in RangeOrders(plugins) :
          LET rec == StateStart(sm.status, clk)
              r   == saveStatus(rec, disk, fault)
          IN /\ sm' = [sm EXCEPT !.status = rec]
             /\ disk' = r.file
             /\ sgh' = [sgh EXCEPT !.failed = @ \/ r.err # "nil"]
             /\ sevt' = [NoStoreEvent EXCEPT !.op = "Start", !.ret = r.err]
             /\ IF r.err # "nil"
                THEN /\ life' = [life EXCEPT !.start = "returned", !.sret = r.err]
                     /\ UNCHANGED <<th, evt>>
                ELSE /\ life' = [life EXCEPT !.start = "startall", !.amu = StartT,
                                             !.looping = TRUE, !.hb = "running"]
                     /\ evt' = Event(StartT, "step", "-", "-", "-", <<>>)
                     /\ IF order = <<>>
                        THEN th' = th
                        ELSE th' = [th EXCEPT ![StartT] =
                                       [Idle EXCEPT !.pc = "next", !.op = "StartAll",
                                                    !.todo = order]]
    /\ UNCHANGED <<plugins, pstatus, cfgFile, mu, clk, sth>>
    /\ UNCHANGED <<exVars, agVars, spVars>>

\* pluginMgr.StartAll() returned: a.running = true; return nil
AgentStartReturn ==
    /\ life.start = "startall"
    /\ th[StartT].pc = "idle"
    /\ life' = [life EXCEPT !.start = "returned", !.sret = "nil", !.amu = 0,
                            !.running = TRUE]
    /\ UNCHANGED <<pmVars, exVars, agVars, smVars, spVars>>

\* Agent.Stop up to wsClient.Stop(): returns at once unless a.running, else
\* cancels the context
AgentStop ==
    /\ life.stop = "idle"
    /\ life.amu = 0
    /\ IF ~life.running
       THEN /\ life' = [life EXCEPT !.stop = "returned"]
            /\ ctxDone' = ctxDone
       ELSE /\ life' = [life EXCEPT !.stop = "disconnect", !.amu = StopCaller]
            /\ ctxDone' = TRUE
    /\ UNCHANGED <<ws, wmu, lp, snd, stp>>
    /\ UNCHANGED <<pmVars, exVars, smVars, spVars>>

\* Agent.Stop once wsClient.Stop() returned: heartbeat.Stop(),
\* stateMgr.Stop(), executor.Stop(), pluginMgr.Stop() up to its first
\* StopPlugin
AgentStopComponents ==
    /\ life.stop = "disconnect"
    /\ stp.done
    /\ ~StoreLocked
    /\ CanRLock(StartT)
    /\ \E fault \in WriteFaults, order \in RangeOrders(plugins) :
          LET rec == StateStop(sm.status)
              r   == saveStatus(rec, disk, fault)
          IN /\ sm' = [sm EXCEPT !.status = rec]
             /\ disk' = r.file
             /\ sgh' = [sgh EXCEPT !.failed = @ \/ r.err # "nil"]
             /\ sevt' = [NoStoreEvent EXCEPT !.op = "Stop"]
             /\ evt' = Event(StartT, "step", "-", "-", "-", <<>>)
             /\ IF order = <<>>
                THEN th' = th
                ELSE th' = [th EXCEPT ![StartT] =
                               [Idle EXCEPT !.pc = "next", !.op = "StopAll",
                                            !.todo = order]]
    /\ life' = [life EXCEPT !.stop = "wait"]
    /\ ex' = Kill(ex, running)
    /\ running' = {}
    /\ exlast' = [op |-> "Stop", ret |-> "nil", list |-> {}]
    /\ UNCHANGED <<plugins, pstatus, cfgFile, mu, files, clk, sth>>
    /\ UNCHANGED <<agVars, spVars>>

\* runHeartbeat: case <-a.ctx.Done(): return
HeartbeatExit ==
    /\ life.hb = "running"
    /\ ctxDone
    /\ life' = [life EXCEPT !.hb = "exited"]
    /\ UNCHANGED <<pmVars, exVars, agVars, smVars, spVars>>

\* a.wg.Wait() returned: a.running = false
AgentStopReturn ==
    /\ life.stop = "wait"
    /\ th[StartT].pc = "idle"
    /\ lp.pc = "exit"
    /\ life.hb = "exited"
    /\ life' = [life EXCEPT !.stop = "returned", !.amu = 0, !.running = FALSE]
    /\ UNCHANGED <<pmVars, exVars, agVars, smVars, spVars>>

(***************************************************************************)
(* The task scheduler plugin                                               *)
(***************************************************************************)
\* A cron expression is the sequence of its space-separated fields; a
\* descriptor ("@every 1m") is parsed whole and is kept as one field.
Five == <<"*/1", "*", "*", "*", "*">>

Six == <<"0", "*/5", "*", "*", "*", "*">>

Every == <<"@every 1m">>

Nonsense == <<"every", "minute">>

Exprs == {Five, Six, Every, Nonsense}

Descriptors == {"@every 1m", "@hourly", "@daily"}

FieldOK(f) == f \in {"*", "*/1", "*/5", "0"}

\* cron.Parser.Parse for a parser of n mandatory fields that allows
\* descriptors
Parse(n, expr) ==
    IF Len(expr) = 0 THEN "empty spec string"
    ELSE IF expr[1] \in Descriptors THEN "nil"
    ELSE IF Len(expr) # n THEN "expected exactly n fields"
    ELSE IF \E i \in 1..Len(expr) : ~FieldOK(expr[i]) THEN "failed to parse field"
    ELSE "nil"

\* cron.ParseStandard: minute, hour, day of month, month, day of week
StandardFields == 5

ParseStandard(expr) == Parse(StandardFields, expr)

\* cron.New(cron.WithSeconds()): second, minute, hour, day of month, month,
\* day of week
SecondsFields == 6

ParseForScheduler(expr) == Parse(SecondsFields, expr)

NewSchedulerPlugin ==
    [tasks |-> <<>>, ntask |-> 0, entries |-> {}, nextID |-> 0, cronRunning |-> FALSE,
     status |-> "stopped", ctx |-> FALSE, stopChan |-> "open", panicked |-> FALSE,
     runs |-> <<>>, nrun |-> 0]

Has(args, k) == k \in DOMAIN args

Get(args, k, default) == IF Has(args, k) THEN args[k] ELSE default

\* what a handler hands back: the plugin afterwards, the error, the id
Ret(s, err, id) == [sp |-> s, err |-> err, id |-> id]

\* cron.Cron.Remove
Remove(s, eid) == [s EXCEPT !.entries = {e \in @ : e.id # eid}]

\* Entry(id).Next right after AddFunc: the running scheduler has computed
\* it, the stopped one computes it in Start
EntryNext(s) == IF s.cronRunning THEN Boot + 1 ELSE ZeroTime

addToScheduler(s, tid) ==
    LET err == ParseForScheduler(s.tasks[tid].CronExpr)
        eid == s.nextID + 1
    IN IF err # "nil"
       THEN Ret(s, err, tid)
       ELSE Ret([s EXCEPT !.nextID = eid,
                          !.entries = @ \cup {[id |-> eid, task |-> tid]},
                          !.tasks[tid].EntryID = eid,
                          !.tasks[tid].NextRun = EntryNext(s)], "nil", tid)

handleAddTask(s, args) ==
    IF ~Has(args, "name") THEN Ret(s, "name is required", 0)
    ELSE IF ~Has(args, "cron_expr") THEN Ret(s, "cron_expr is required", 0)
    ELSE IF ~Has(args, "command") THEN Ret(s, "command is required", 0)
    ELSE IF ParseStandard(args.cron_expr) # "nil"
    THEN Ret(s, "invalid cron expression", 0)
    ELSE LET tid == s.ntask + 1
             task == [Name |-> args.name, Description |-> Get(args, "description", ""),
                      CronExpr |-> args.cron_expr, Command |-> args.command,
                      Type |-> Get(args, "type", "shell"),
                      Enabled |-> Get(args, "enabled", FALSE), Status |-> "active",
                      EntryID |-> 0, NextRun |-> ZeroTime, LastRun |-> ZeroTime,
                      RunCount |-> 0, SuccessCount |-> 0, FailureCount |-> 0,
                      LastResult |-> "nil"]
             s1 == [s EXCEPT !.ntask = tid, !.tasks = (tid :> task) @@ @]
         IN IF task.Enabled
            THEN LET r == addToScheduler(s1, tid)
                 IN IF r.err # "nil" THEN Ret(r.sp, r.err, 0) ELSE r
            ELSE Ret(s1, "nil", tid)

handleUpdateTask(s, args) ==
    IF ~Has(args, "id") THEN Ret(s, "id is required", 0)
    ELSE IF args.id \notin DOMAIN s.tasks THEN Ret(s, "task not found", 0)
    ELSE LET id == args.id
             s1 == [s EXCEPT !.tasks[id].Name = Get(args, "name", @),
                             !.tasks[id].Description = Get(args, "description", @)]
         IN IF Has(args, "cron_expr") /\ ParseStandard(args.cron_expr) # "nil"
            THEN Ret(s1, "invalid cron expression", 0)
            ELSE LET s2 == [s1 EXCEPT !.tasks[id].CronExpr = Get(args, "cron_expr", @),
                                      !.tasks[id].Command = Get(args, "command", @),
                                      !.tasks[id].Type = Get(args, "type", @)]
                     task == s2.tasks[id]
                 IN IF task.Enabled /\ task.EntryID # 0
                    THEN LET r == addToScheduler(Remove(s2, task.EntryID), id)
                         IN IF r.err # "nil" THEN Ret(r.sp, r.err, 0) ELSE r
                    ELSE Ret(s2, "nil", id)

handleRemoveTask(s, args) ==
    IF ~Has(args, "id") THEN Ret(s, "id is required", 0)
    ELSE IF args.id \notin DOMAIN s.tasks THEN Ret(s, "task not found", 0)
    ELSE LET id == args.id
             s1 == IF s.tasks[id].EntryID # 0 THEN Remove(s, s.tasks[id].EntryID) ELSE s
         IN Ret([s1 EXCEPT !.tasks = [i \in DOMAIN @ \ {id} |-> @[i]]], "nil", id)

handleEnableTask(s, args) ==
    IF ~Has(args, "id") THEN Ret(s, "id is required", 0)
    ELSE IF args.id \notin DOMAIN s.tasks THEN Ret(s, "task not found", 0)
    ELSE LET id == args.id
         IN IF ~s.tasks[id].Enabled
            THEN LET s1 == [s EXCEPT !.tasks[id].Enabled = TRUE,
                                     !.tasks[id].Status = "active"]
                     r == addToScheduler(s1, id)
                 IN IF r.err # "nil" THEN Ret(r.sp, r.err, 0) ELSE r
            ELSE Ret(s, "nil", id)

handleDisableTask(s, args) ==
    IF ~Has(args, "id") THEN Ret(s, "id is required", 0)
    ELSE IF args.id \notin DOMAIN s.tasks THEN Ret(s, "task not found", 0)
    ELSE LET id == args.id
             task == s.tasks[id]
         IN IF task.Enabled
            THEN LET s1 == [s EXCEPT !.tasks[id].Enabled = FALSE,
                                     !.tasks[id].Status = "paused"]
                 IN IF task.EntryID # 0
                    THEN Ret([Remove(s1, task.EntryID) EXCEPT !.tasks[id].EntryID = 0],
                             "nil", id)
                    ELSE Ret(s1, "nil", id)
            ELSE Ret(s, "nil", id)

\* go p.executeTask(task): one more execution of the task, not yet at its
\* first statement
Go(s, tid) ==
    [s EXCEPT !.nrun = @ + 1,
              !.runs = (s.nrun + 1 :> [task |-> tid, pc |-> "begin", out |-> "-",
                                       log |-> <<>>]) @@ @]

handleRunTask(s, args) ==
    IF ~Has(args, "id") THEN Ret(s, "id is required", 0)
    ELSE IF args.id \notin DOMAIN s.tasks THEN Ret(s, "task not found", 0)
    ELSE Ret(Go(s, args.id), "nil", args.id)

\* the "tasks" of the result: the tasks of the map, with their ids
handleListTasks(s) == {[ID |-> i, task |-> s.tasks[i]] : i \in DOMAIN s.tasks}

HandleCommand(s, command, args) ==
    CASE command = "add_task" -> handleAddTask(s, args)
      [] command = "update_task" -> handleUpdateTask(s, args)
      [] command = "remove_task" -> handleRemoveTask(s, args)
      [] command = "enable_task" -> handleEnableTask(s, args)
      [] command = "disable_task" -> handleDisableTask(s, args)
      [] command = "run_task" -> handleRunTask(s, args)
      [] command = "list_tasks" -> Ret(s, "nil", 0)
      [] OTHER -> Ret(s, ErrInvalidCommand, 0)

\* for _, task := range p.tasks: the tasks in the order the range yields them
RECURSIVE restoreEnabledTasks(_, _)
restoreEnabledTasks(s, order) ==
    IF order = <<>> THEN s
    ELSE LET tid == Head(order)
             s1 == IF s.tasks[tid].Enabled THEN addToScheduler(s, tid).sp ELSE s
         IN restoreEnabledTasks(s1, Tail(order))

\* the orders in which a range over the ids may yield them
Orders(ids) ==
    {o \in UNION {[1..n -> ids] : n \in {Cardinality(ids)}} :
        \A i, j \in DOMAIN o : i # j => o[i] # o[j]}

TaskIDs == 1..MaxTasks

NameArgs == {<<>>, [name |-> "n2", description |-> "d2"]}

CronArgs == {<<>>} \cup {[cron_expr |-> e] : e \in Exprs}

AddArgs ==
    {[name |-> "n1", cron_expr |-> e, command |-> "c1", enabled |-> b] :
        e \in Exprs, b \in BOOLEAN}
    \cup {[cron_expr |-> Five, command |-> "c1", enabled |-> TRUE],
          [name |-> "n1", command |-> "c1", enabled |-> TRUE],
          [name |-> "n1", cron_expr |-> Five, enabled |-> TRUE]}

UpdateArgs == {[id |-> i] @@ n @@ c : i \in TaskIDs, n \in NameArgs, c \in CronArgs}

IdArgs == {<<>>} \cup {[id |-> i] : i \in TaskIDs}

NoSchedEvent ==
    [op |-> "none", args |-> <<>>, err |-> "nil", id |-> 0, res |-> {}, log |-> <<>>]

\* the ids handed out stay within the bounds
Room(s) == s.ntask <= MaxTasks /\ s.nextID <= MaxEntries /\ s.nrun <= MaxRuns

\* what the caller of HandleCommand has in hand when it returns
CommandReturned(command, args, r, s) ==
    [op |-> command,
     args |-> IF command \in {"add_task", "enable_task"} THEN args ELSE <<>>,
     err |-> r.err, id |-> r.id,
     res |-> IF command = "list_tasks" THEN handleListTasks(s) ELSE {}, log |-> <<>>]

AddTask ==
    /\ ~sp.panicked
    /\ \E args \in AddArgs :
          LET r == HandleCommand(sp, "add_task", args)
          IN Room(r.sp) /\ sp' = r.sp /\ spevt' = CommandReturned("add_task", args, r, sp)
    /\ UNCHANGED notSched

UpdateTask ==
    /\ ~sp.panicked
    /\ \E args \in UpdateArgs :
          LET r == HandleCommand(sp, "update_task", args)
          IN Room(r.sp) /\ sp' = r.sp /\ spevt' = CommandReturned("update_task", args, r, sp)
    /\ UNCHANGED notSched

RemoveTask ==
    /\ ~sp.panicked
    /\ \E args \in IdArgs :
          LET r == HandleCommand(sp, "remove_task", args)
          IN Room(r.sp) /\ sp' = r.sp /\ spevt' = CommandReturned("remove_task", args, r, sp)
    /\ UNCHANGED notSched

EnableTask ==
    /\ ~sp.panicked
    /\ \E args \in IdArgs :
          LET r == HandleCommand(sp, "enable_task", args)
          IN Room(r.sp) /\ sp' = r.sp /\ spevt' = CommandReturned("enable_task", args, r, sp)
    /\ UNCHANGED notSched

DisableTask ==
    /\ ~sp.panicked
    /\ \E args \in IdArgs :
          LET r == HandleCommand(sp, "disable_task", args)
          IN Room(r.sp) /\ sp' = r.sp /\ spevt' = CommandReturned("disable_task", args, r, sp)
    /\ UNCHANGED notSched

RunTask ==
    /\ ~sp.panicked
    /\ \E args \in IdArgs :
          LET r == HandleCommand(sp, "run_task", args)
          IN Room(r.sp) /\ sp' = r.sp /\ spevt' = CommandReturned("run_task", args, r, sp)
    /\ UNCHANGED notSched

\* the running cron scheduler fires an entry: the job runs in a goroutine
\* of its own
Fire ==
    /\ ~sp.panicked
    /\ sp.cronRunning
    /\ \E e \in sp.entries :
          /\ Room(Go(sp, e.task))
          /\ sp' = Go(sp, e.task)
          /\ spevt' = [NoSchedEvent EXCEPT !.op = "fire", !.id = e.task]
    /\ UNCHANGED notSched

\* what ExecuteCommand of the facade may return
Outcomes == {"ok", "err"}

\* task.SuccessCount++ or task.FailureCount++
TallyBoth(task, out) ==
    [task EXCEPT !.SuccessCount = @ + 1, !.FailureCount = @ + 1]

Tally(task, out) ==
    IF out = "ok" THEN [task EXCEPT !.SuccessCount = @ + 1]
    ELSE [task EXCEPT !.FailureCount = @ + 1]

\* the task object of an execution, when the map still holds it
OnTask(s, tid, task) ==
    IF tid \in DOMAIN s.tasks THEN [s EXCEPT !.tasks[tid] = task] ELSE s

\* the next step of execution r of executeTask, cut where it takes p.mu or
\* waits for the command; out is what ExecuteCommand returns when the step
\* is its return
executeTask(s, r, out) ==
    LET run == s.runs[r]
        tid == run.task
        task == IF tid \in DOMAIN s.tasks THEN s.tasks[tid] ELSE <<>>
        at(pc, did) == [s EXCEPT !.runs[r].pc = pc, !.runs[r].log = @ \o did]
    IN CASE run.pc = "begin" ->
              OnTask(at("started", <<"run_count">>), tid,
                     [task EXCEPT !.LastRun = Boot, !.RunCount = @ + 1])
         [] run.pc = "started" ->
              IF s.ctx THEN at("running", <<"task_started", "command">>)
              ELSE [s EXCEPT !.panicked = TRUE]
         [] run.pc = "running" ->
              OnTask([at("tallied", IF out = "ok" THEN <<"success_count">>
                                    ELSE <<"failure_count">>) EXCEPT !.runs[r].out = out],
                     tid, Tally(task, out))
         [] OTHER ->
              OnTask([s EXCEPT !.runs = [i \in DOMAIN @ \ {r} |-> @[i]]], tid,
                     [task EXCEPT !.LastResult = run.out,
                                  !.NextRun = IF task.EntryID # 0 THEN EntryNext(s) ELSE @])

\* what an execution has done when it returns
Finished(run) ==
    run.log \o <<IF run.out = "ok" THEN "task_completed" ELSE "task_failed">>

ExecuteTask ==
    /\ ~sp.panicked
    /\ \E r \in DOMAIN sp.runs, out \in Outcomes :
          /\ sp' = executeTask(sp, r, out)
          /\ spevt' = [NoSchedEvent EXCEPT
                         !.op = "executeTask", !.id = sp.runs[r].task,
                         !.err = IF sp.runs[r].pc = "tallied" THEN "nil" ELSE "running",
                         !.log = IF sp.runs[r].pc = "tallied" THEN Finished(sp.runs[r])
                                 ELSE <<>>]
    /\ UNCHANGED notSched

ListTasks ==
    /\ ~sp.panicked
    /\ LET r == HandleCommand(sp, "list_tasks", <<>>)
       IN sp' = r.sp /\ spevt' = CommandReturned("list_tasks", <<>>, r, sp)
    /\ UNCHANGED notSched

\* Manager.StartPlugin calls Init before Start
SchedulerInit ==
    /\ ~sp.panicked
    /\ ~sp.ctx
    /\ sp' = [sp EXCEPT !.ctx = TRUE, !.status = "initialized"]
    /\ spevt' = [NoSchedEvent EXCEPT !.op = "Init"]
    /\ UNCHANGED notSched

SchedulerStart ==
    /\ ~sp.panicked
    /\ sp.ctx
    /\ \E order \in Orders(DOMAIN sp.tasks) :
          LET s == restoreEnabledTasks([sp EXCEPT !.status = "running",
                                                  !.cronRunning = TRUE], order)
          IN Room(s) /\ sp' = s
    /\ spevt' = [NoSchedEvent EXCEPT !.op = "Start"]
    /\ UNCHANGED notSched

\* Stop panics in close(p.stopChan) when the channel is closed already, and
\* in p.ctx.Logger.Info when Init never set p.ctx
StopPanics(s) == s.stopChan = "closed" \/ ~s.ctx

SchedulerStop ==
    /\ ~sp.panicked
    /\ sp' = [sp EXCEPT !.status = "stopped", !.cronRunning = FALSE,
                        !.stopChan = "closed", !.panicked = StopPanics(sp)]
    /\ spevt' = [NoSchedEvent EXCEPT !.op = "Stop",
                                     !.err = IF StopPanics(sp) THEN "panic" ELSE "nil"]
    /\ UNCHANGED notSched

\* a scheduler plugin nobody uses
SchedQuiet == sp = NewSchedulerPlugin /\ spevt = NoSchedEvent

(***************************************************************************)
(* The plugin manager under concurrent callers                             *)
(***************************************************************************)
NoEvent == [op |-> "none", name |-> "-", ret |-> "-", res |-> "-", calls |-> <<>>]

\* A plugin object is handed to the manager in whatever state it was built:
\* the constructors of the repository build it "stopped", the tests also
\* build it "running".
InitPlugin ==
    /\ plugins = <<>>
    /\ pstatus \in [PluginObjs -> {PluginStatus("stopped", ""), PluginStatus("running", "")}]
    /\ cfgFile = [n \in Names |-> "none"]
    /\ mu = 0
    /\ th = [t \in Threads |-> Idle]
    /\ evt = NoEvent
    /\ ExecutorNew
    /\ AgentNew
    /\ StoreQuiet
    /\ life = LifeNew
    /\ SchedQuiet

NextPlugin ==
    \E t \in Threads :
        \/ \E o \in PluginObjs : Register(t, o)
        \/ \E n \in Names : Unregister(t, n)
        \/ \E n \in Names : StartPlugin(t, n)
        \/ \E n \in Names : StopPlugin(t, n)
        \/ LoadPluginConfig(t)
        \/ SavePluginConfig(t)
        \/ StartAll(t)
        \/ StopAll(t)
        \/ AllNext(t)
        \/ \E n \in Names : GetPluginStatus(t, n)
        \/ GetAllPluginStatus(t)
        \/ \E n \in Names : SendCommand(t, n)
        \/ \E n \in Names : SendEvent(t, n)

SpecPlugin == InitPlugin /\ [][NextPlugin]_vars

TypeOKPlugin ==
    /\ DOMAIN plugins \subseteq Names
    /\ mu \in 0..MaxThreads
    /\ \A t \in Threads : th[t].pc \in {"idle", "load", "save", "next"}

(***************************************************************************)
(* The executor under concurrent callers                                   *)
(***************************************************************************)
ManagerNew ==
    /\ plugins = <<>>
    /\ pstatus = [o \in PluginObjs |-> PluginStatus("stopped", "")]
    /\ cfgFile = [n \in Names |-> "none"]
    /\ mu = 0
    /\ th = [t \in Threads |-> Idle]
    /\ evt = NoEvent

InitExecutor ==
    ExecutorNew /\ ManagerNew /\ AgentNew /\ StoreQuiet /\ life = LifeNew /\ SchedQuiet

NextExecutor ==
    \/ \E i \in ExecSlots : Execute(i)
    \/ \E i \in ExecSlots : Tick(i)
    \/ \E i \in ExecSlots : Deadline(i)
    \/ \E i \in ExecSlots : Complete(i)
    \/ \E id \in ExecSlots \cup {0} : StopCommand(id)
    \/ ListRunningCommands
    \/ ExecutorStop

SpecExecutor == InitExecutor /\ [][NextExecutor]_vars

(***************************************************************************)
(* The agent: receive loop, senders, Disconnect                            *)
(***************************************************************************)
InitAgent ==
    /\ AgentNew
    /\ StoreQuiet
    /\ life = LifeNew
    /\ SchedQuiet
    /\ ExecutorNew
    /\ \E extra \in SUBSET Mocks : \E order \in Perms(extra) :
          plugins = RegisterAll(registerBuiltinPlugins, order)
    /\ pstatus = [o \in PluginObjs |-> PluginStatus("stopped", "")]
    /\ cfgFile = [n \in Names |-> "none"]
    /\ mu = 0
    /\ th = [t \in Threads |-> Idle]
    /\ evt = NoEvent

NextAgent ==
    \/ Connect
    \/ Dial
    \/ Sleep
    \/ LoopExit
    \/ Receive
    \/ ReadMessage
    \/ HandleMessage
    \/ HandleReturn
    \/ \E s \in Senders : Send(s)
    \/ \E s \in Senders : SendReturn(s)
    \/ Disconnect
    \/ Cancel

\* The loop goroutine is scheduled; a dial, a write and a read on a broken
\* connection return; a read on a sound connection may wait forever.
LoopRuns ==
    \/ Connect
    \/ Dial
    \/ Sleep
    \/ LoopExit
    \/ Receive
    \/ ReadMessage /\ ws.conn = "failed"
    \/ HandleMessage
    \/ HandleReturn

SpecAgent ==
    /\ InitAgent
    /\ [][NextAgent]_vars
    /\ WF_vars(LoopRuns)
    /\ WF_vars(\E s \in Senders : SendReturn(s))
    /\ WF_vars(Disconnect)

(***************************************************************************)
(* Properties of the plugin manager                                        *)
(***************************************************************************)
(* The state store under concurrent callers, across restarts               *)
(***************************************************************************)
InitState ==
    /\ ManagerNew
    /\ ExecutorNew
    /\ AgentNew
    /\ disk \in FoundFiles
    /\ clk = Boot
    /\ sm = NewManager(disk, Boot)
    /\ sth = [t \in StoreThreads |-> StoreIdle]
    /\ sevt = [NoStoreEvent EXCEPT !.op = "NewManager"]
    /\ sgh = [failed |-> FALSE]
    /\ life = LifeNew
    /\ SchedQuiet

NextState ==
    \/ \E t \in StoreThreads : Mutate(t)
    \/ \E t \in StoreThreads : SaveStatus(t)
    \/ \E t \in StoreThreads : GetStatus(t)
    \/ \E t \in StoreThreads : IsHealthy(t)
    \/ ClockTick
    \/ Restart

SpecState == InitState /\ [][NextState]_vars

(***************************************************************************)
(* The agent from Start to Stop                                            *)
(***************************************************************************)
\* agent.New(): the store constructed, the built-in plugins registered (or
\* none left in the registry), nothing started
InitLife ==
    /\ AgentNew
    /\ ExecutorNew
    /\ plugins \in {<<>>, registerBuiltinPlugins}
    /\ pstatus = [o \in PluginObjs |-> PluginStatus("stopped", "")]
    /\ cfgFile = [n \in Names |-> "none"]
    /\ mu = 0
    /\ th = [t \in Threads |-> Idle]
    /\ evt = NoEvent
    /\ disk \in {NoFile, File("garbage", Marshal(ZeroStatus))}
    /\ clk = Boot
    /\ sm = NewManager(disk, Boot)
    /\ sth = [t \in StoreThreads |-> StoreIdle]
    /\ sevt = [NoStoreEvent EXCEPT !.op = "NewManager"]
    /\ sgh = [failed |-> FALSE]
    /\ life = LifeNew
    /\ SchedQuiet

NextLife ==
    \/ AgentStart
    \/ (life.start = "startall" \/ life.stop = "wait") /\ AllNext(StartT)
    \/ AgentStartReturn
    \/ life.looping /\ Connect
    \/ life.looping /\ Dial
    \/ life.looping /\ Sleep
    \/ life.looping /\ LoopExit
    \/ life.looping /\ Receive
    \/ life.looping /\ ReadMessage
    \/ life.looping /\ HandleMessage
    \/ life.looping /\ HandleReturn
    \/ AgentStop
    \/ life.stop = "disconnect" /\ ~stp.done /\ Disconnect
    \/ AgentStopComponents
    \/ HeartbeatExit
    \/ AgentStopReturn

SpecLife == InitLife /\ [][NextLife]_vars

(***************************************************************************)
(* The scheduler plugin under its commands                                 *)
(***************************************************************************)
InitSched ==
    /\ ManagerNew
    /\ ExecutorNew
    /\ AgentNew
    /\ StoreQuiet
    /\ life = LifeNew
    /\ sp = NewSchedulerPlugin
    /\ spevt = NoSchedEvent

NextSched ==
    \/ AddTask
    \/ UpdateTask
    \/ RemoveTask
    \/ EnableTask
    \/ DisableTask
    \/ ListTasks
    \/ SchedulerInit
    \/ SchedulerStart
    \/ SchedulerStop

SpecSched == InitSched /\ [][NextSched]_vars

(***************************************************************************)
(* The scheduler plugin firing its tasks                                   *)
(***************************************************************************)
\* the tasks added here are the ones the scheduler accepts
FireArgs ==
    {[name |-> "n1", cron_expr |-> Every, command |-> "c1", enabled |-> b] : b \in BOOLEAN}

AddFireTask == AddTask /\ spevt'.args \in FireArgs

NextFire ==
    \/ AddFireTask
    \/ SchedulerInit
    \/ SchedulerStart
    \/ RunTask
    \/ Fire
    \/ ExecuteTask

SpecFire == InitSched /\ [][NextFire]_vars

(***************************************************************************)
\* The goroutine waits in RLock() for a mutex whose Lock() it holds itself.
SelfBlocked(t) == th[t].pc \in {"load", "save"} /\ mu = t

\* C1: for a registered plugin whose status is stopped, StartPlugin then
\* StopPlugin both return without error, the status being "running" in
\* between and "stopped" again at the end.  A call that is to return is
\* never left waiting for the registry lock it holds itself.
C1_StartStopReturn ==
    \A t \in Threads :
        th[t].op \in {"StartPlugin", "StopPlugin"} => ~SelfBlocked(t)

\* C2: SendCommand/SendEvent return "plugin not found" for an unregistered
\* name and "plugin not started" for an instance that is not running;
\* otherwise they call HandleCommand/HandleEvent exactly once and return
\* what it returned.  A registered plugin whose Status() reports "running"
\* receives the command.
C2_Dispatch ==
    evt.op \in {"SendCommand", "SendEvent"} =>
        IF evt.name \notin DOMAIN plugins
        THEN evt.ret = ErrPluginNotFound /\ evt.calls = <<>>
        ELSE IF pstatus[plugins[evt.name].Plugin].Status = "running"
        THEN /\ Len(evt.calls) = 1
             /\ evt.ret = evt.res.out.err
             /\ evt.res.got = evt.res.out.res
        ELSE evt.ret = ErrPluginNotStarted /\ evt.calls = <<>>

\* C3: StartAll and StopAll attempt every plugin of their snapshot, also
\* after an attempt failed, and return an error iff an attempt failed: the
\* loop is never left waiting, inside one attempt, for the registry lock it
\* holds itself.
C3_AllAttempted ==
    \A t \in Threads :
        th[t].op \in {"StartAll", "StopAll"} => ~SelfBlocked(t)

\* C4: Register of a plugin whose name is already registered returns
\* "plugin already exists" and leaves the registry as it was; every
\* registered instance is filed under the name its plugin reports.
C4_RegisterCollision ==
    /\ [](\A n \in DOMAIN plugins : InfoName(plugins[n].Plugin) = n)
    /\ [][(evt'.op = "Register" /\ evt'.name \in DOMAIN plugins)
            => (evt'.ret = ErrPluginAlreadyExists /\ plugins' = plugins)]_vars

C4_Witness ==
    /\ evt.op = "Register"
    /\ evt.ret = ErrPluginAlreadyExists
    /\ evt.name \in DOMAIN plugins
    /\ plugins[evt.name].Aliased

\* C5: Unregister of a name that is not registered returns "plugin not
\* found", calls no plugin method and changes neither the registry nor any
\* plugin.
C5_UnregisterUnknown ==
    [][(evt'.op = "Unregister" /\ evt'.name \notin DOMAIN plugins)
         => /\ evt'.ret = ErrPluginNotFound
            /\ evt'.calls = <<>>
            /\ plugins' = plugins
            /\ pstatus' = pstatus]_vars

\* an Unregister of a name that was registered before and is no more
C5_Witness ==
    /\ evt.op = "Unregister"
    /\ evt.ret = ErrPluginNotFound
    /\ evt.name \notin DOMAIN plugins
    /\ DOMAIN plugins # {}

\* C6: a failing Init or Start (StartPlugin) or Stop (StopPlugin) is
\* returned to the caller and leaves the instance in status "error" with
\* the message in LastError.  A StartPlugin whose plugin is going to fail
\* in Init or Start gets as far as calling it.
C6_LifecycleErrorSurfaced ==
    /\ \A t \in Threads :
          (th[t].pc = "load" /\ th[t].plan \in {"init", "start"}) => mu # t
    /\ (evt.op = "StopPlugin" /\ evt.ret = "failed to stop plugin")
          => /\ InstStatus(plugins, pstatus, evt.name).Status = "error"
             /\ InstStatus(plugins, pstatus, evt.name).LastError = "stop failed"

TimeoutIndications == {"timeout", "command timed out", "context deadline exceeded"}

\* C8: a Command with timeout t > 0 whose script runs longer than t is
\* killed at the deadline and its Result has success = false and an error
\* text with a timeout indication.
C8_TimeoutReported ==
    \A i \in ExecSlots :
        (/\ ex[i].pc = "done"
         /\ ex[i].spawned
         /\ ex[i].cmd.Timeout > 0
         /\ ex[i].cmd.Script.dur > ex[i].cmd.Timeout)
        => /\ ex[i].proc.killed
           /\ ~ex[i].result.Success
           /\ ex[i].result.Error \in TimeoutIndications

\* C9: on the shell and script-host surfaces, whatever the timeout, the
\* process runs in Command.working_dir, or in the executor's default
\* directory when that is empty, with the ambient environment followed by
\* Command.env.
C9_DirAndEnv ==
    \A i \in ExecSlots :
        (ex[i].pc = "wait" /\ ex[i].cmd.Type \in {CommandTypeShell, CommandTypePowerShell})
        => /\ ex[i].proc.dir = (IF ex[i].cmd.WorkingDir # "" THEN ex[i].cmd.WorkingDir
                                                              ELSE workDir)
           /\ ex[i].proc.env = Environ \o ex[i].cmd.Env

\* C10: while Execute of the Command with id X is in flight, X is in the
\* registry that ListRunningCommands lists and StopCommand kills from;
\* once Execute returned, X is not in it.
C10_InFlightRegistered ==
    \A i \in ExecSlots :
        /\ ex[i].pc = "wait" => i \in running
        /\ ex[i].pc = "done" => i \notin running

\* C11: once Execute returned, whichever way (success, non-zero exit,
\* launch failure, chmod failure, timeout), the temporary script file made
\* for that Command is gone; the files that exist are those of the calls
\* still waiting for their process.
C11_ScriptFileRemoved ==
    /\ \A i \in ExecSlots : ex[i].pc = "done" => i \notin files
    /\ files \subseteq {i \in ExecSlots : ex[i].pc = "wait"}

\* a command that was killed at its deadline has returned
C11_Witness ==
    \E i \in ExecSlots :
        /\ ex[i].pc = "done"
        /\ ex[i].made
        /\ ex[i].proc.killed
        /\ ~ex[i].result.Success
        /\ i \notin files

\* error texts that contain "unsupported command type"
UnsupportedTypeErrors ==
    {"unsupported command type: invalid_type", "unsupported command type: "}

\* C12: Execute of a Command whose type is none of shell, powershell,
\* container returns success = false with an "unsupported command type"
\* error, and of a container Command with an empty container_id
\* success = false with the error that the container ID is required; in
\* both cases no temporary file was made, no process was spawned and
\* Result.id is Command.id.
C12_InvalidRejected ==
    \A i \in ExecSlots :
        ex[i].pc \in {"wait", "done"} =>
            /\ ex[i].cmd.Type \notin {CommandTypeShell, CommandTypePowerShell,
                                       CommandTypeContainer}
                  => /\ ex[i].pc = "done"
                     /\ ~ex[i].result.Success
                     /\ ex[i].result.Error \in UnsupportedTypeErrors
                     /\ ex[i].result.ID = ex[i].cmd.ID
                     /\ ~ex[i].made /\ ~ex[i].spawned
            /\ (ex[i].cmd.Type = CommandTypeContainer /\ ex[i].cmd.ContainerID = "")
                  => /\ ex[i].pc = "done"
                     /\ ~ex[i].result.Success
                     /\ ex[i].result.Error =
                            "container ID is required for container commands"
                     /\ ex[i].result.ID = ex[i].cmd.ID
                     /\ ~ex[i].made /\ ~ex[i].spawned

\* a container command without container id was rejected
C12_Witness ==
    \E i \in ExecSlots :
        /\ ex[i].pc = "done"
        /\ ex[i].cmd.Type = CommandTypeContainer
        /\ ex[i].cmd.ContainerID = ""
        /\ ex[i].result.Error = "container ID is required for container commands"
        /\ ~ex[i].made

(***************************************************************************)
(* Properties of the connection                                            *)
(***************************************************************************)
\* the goroutines inside conn.WriteMessage
Writers ==
    {s \in Senders : snd[s].pc = "write"} \cup (IF lp.pc = "hwrite" THEN {LoopT} ELSE {})

\* C13: whatever the number of goroutines calling Send on a connected
\* client, at most one write to the connection is in progress at a time.
C13_SendSerialized == Cardinality(Writers) <= 1

\* C14: when Receive has returned a read error, the client is no longer
\* connected: IsConnected() is false and the next Connect() dials.
C14_ReadErrorDisconnects ==
    (lp.pc = "inner" /\ lp.last = "readerr") => ~ws.connected

\* C15: while the agent runs, a failed dial and a read error on an
\* established connection are each followed by a new dial.
C15_Reconnects ==
    (lp.failed /\ ~ctxDone) ~> (lp.pc = "dial" \/ ctxDone)

\* C16: Send on a client that is not connected returns an error at once:
\* it does not wait (its read lock can be taken whenever the client is not
\* connected), writes to no connection and changes nothing in the client.
C16_SendFailsFast ==
    /\ [](~IsConnected(ws) => MuCanRLock(wmu))
    /\ [][\A s \in Senders :
             (snd[s].pc = "idle" /\ snd'[s] # snd[s] /\ ~IsConnected(ws))
             => /\ snd'[s].pc = "idle"
                /\ snd'[s].ret = NotConnected
                /\ ws' = ws
                /\ wmu' = wmu]_vars

(***************************************************************************)
(* Properties of the message router                                        *)
(***************************************************************************)
\* a payload its route can act on
WellFormed(m) ==
    /\ m.data.map
    /\ m.type = "command" => m.data.command = "str"
    /\ m.type = "plugin" => m.data.command = "str" /\ m.data.plugin \in DOMAIN plugins

\* C17: with the built-in plugins registered, a message is routed by its
\* type: command to the executor, schedule to the scheduler plugin,
\* file_transfer to the file-transfer plugin, update to the updater plugin,
\* plugin to the plugin its payload names.
C17_Routed ==
    WellFormed(lp.hm.msg) =>
        /\ lp.hm.msg.type = "command" => lp.hm.did.target = "executor"
        /\ lp.hm.msg.type = "schedule" => lp.hm.did.target = "SchedulerPlugin"
        /\ lp.hm.msg.type = "file_transfer" => lp.hm.did.target = "FileTransferPlugin"
        /\ lp.hm.msg.type = "update" => lp.hm.did.target = "UpdaterPlugin"
        /\ lp.hm.msg.type = "plugin"
              => lp.hm.did.target = plugins[lp.hm.msg.data.plugin].Plugin

\* C18: no inbound message ends the receive loop or the process: after a
\* handler failed, on a malformed payload as on an error, the loop goes on
\* to receive the next message.
C18_HandlerIsolated == ~(lp.pc = "crashed" /\ lp.last = "handlerpanic")

\* the messages the tests hand to handleMessage: a command or schedule
\* message with the fields the tests give it (no string under "command"),
\* an empty or unknown type, a payload that is not a map
TestClass(m) ==
    \/ m.type \in {"", "unknown"}
    \/ m.type = "command" /\ m.data.command = "absent"
    \/ m.type = "schedule" /\ m.data.command \in {"absent", "other"}

\* C19: handleMessage returns nil, and does not panic, for every message of
\* the classes the tests exercise.
C19_HandleMessageNil ==
    (lp.hm.msg # NoMsg /\ TestClass(lp.hm.msg))
        => (lp.hm.did.ret = "nil" /\ ~lp.hm.did.panic)

ResultType(ty) ==
    CASE ty = "schedule" -> "schedule_result"
      [] ty = "file_transfer" -> "file_transfer_result"
      [] ty = "update" -> "update_result"
      [] OTHER -> "plugin_result"

\* C20: on the schedule, file_transfer, update and plugin routes, when the
\* plugin's HandleCommand returned a result and no error, the handler sends
\* one envelope of type "<domain>_result" that carries the result.
C20_ResultSent ==
    (/\ lp.hm.msg.type \in {"schedule", "file_transfer", "update", "plugin"}
     /\ lp.hm.did.target # "none"
     /\ lp.hm.did.out.err = "nil")
    => /\ lp.hm.did.send.type = ResultType(lp.hm.msg.type)
       /\ lp.hm.did.send.result = lp.hm.did.out.res

\* C21: when the executor reports a failed command to handleCommand (the
\* handler returns "command execution failed"), the handler sends a
\* "command_result" envelope upstream that carries the error.
C21_FailureReported ==
    (/\ lp.hm.msg.type = "command"
     /\ lp.hm.did.target = "executor"
     /\ lp.hm.did.ret = "command execution failed")
    => /\ lp.hm.did.send.type = "command_result"
       /\ lp.hm.did.send.result = lp.hm.did.out.err

KnownTypes == {"command", "schedule", "file_transfer", "update", "plugin"}

MutatorOps ==
    {"Start", "Stop", "SetAgentID", "SetVersion", "UpdateTaskCount", "UpdateSystemInfo",
     "UpdateHeartbeat"}

\* what a caller of c expects to read back
Reflects(c, rec) ==
    CASE c.op = "Start" -> rec.Status = "running" /\ rec.LastHeartbeat # ZeroTime
      [] c.op = "Stop" -> rec.Status = "stopped"
      [] c.op = "SetAgentID" -> rec.AgentID = c.s
      [] c.op = "SetVersion" -> rec.Version = c.s
      [] c.op = "UpdateTaskCount" ->
           rec.RunningTasks = TaskCount.running /\ rec.TotalTasks = TaskCount.total
      [] c.op = "UpdateSystemInfo" ->
           rec.SystemInfo = c.info /\ rec.CPUUsage = c.info.cpu
      [] c.op = "UpdateHeartbeat" -> rec.LastHeartbeat # ZeroTime
      [] OTHER -> TRUE

\* the fields of the record that the mutators write
Written(rec) == [rec EXCEPT !.Uptime = 0]

\* C23: once a mutator of the state store has returned, whether its write of
\* the status file succeeded or not, GetStatus() called before any other
\* mutator starts returns a record that reflects the mutation; and between
\* mutators the record keeps what was written: it changes only when a
\* goroutine enters a mutator, to a record that reflects that call, or when
\* the store is constructed anew.
C23_ReadAfterWrite ==
    /\ []((sevt.op \in MutatorOps /\ ~StoreLocked)
            => Reflects(sevt.call, GetStatusOf(sm, clk)))
    /\ [][Written(sm'.status) # Written(sm.status)
            => \/ Restart
               \/ \E t \in StoreThreads :
                     /\ sth[t].pc = "idle"
                     /\ sth'[t].pc = "save"
                     /\ Reflects(sth'[t].call, sm'.status)]_vars

\* C23 witness: SetVersion returned after a write of the file that failed
\* and the record holds the version
C23_Witness ==
    /\ sevt.op = "SetVersion"
    /\ sgh.failed
    /\ disk.kind = "garbage"
    /\ ~StoreLocked
    /\ GetStatusOf(sm, clk).Version = "v1"

\* C24: a store constructed on a directory whose status file is missing,
\* unreadable or does not decode holds the default record: status "stopped",
\* empty agent id and version, zero counts, nothing taken from the file.
C24_DefaultOnBadFile ==
    (/\ sevt.op = "NewManager"
     /\ ~StoreLocked
     /\ disk.kind \in {"missing", "unreadable", "garbage", "mistyped"})
    => sm.status = DefaultStatus(sm.startTime)

\* C24 witness: a store was constructed on a file that holds an agent id
\* and a version but does not decode
C24_Witness ==
    /\ sevt.op = "NewManager"
    /\ disk.kind = "mistyped"
    /\ disk.doc.agent_id = "a2"
    /\ sm.status.AgentID = ""

Survives(old, new) ==
    /\ new.AgentID = old.AgentID
    /\ new.Version = old.Version
    /\ new.Status = old.Status
    /\ new.RunningTasks = old.RunningTasks
    /\ new.TotalTasks = old.TotalTasks

\* C25: when no write of the status file has failed since the store was
\* constructed, a new store constructed on the same directory reports the
\* agent id, version, status and task counts of the old store's record.
C25_SurvivesRestart ==
    [][(Restart /\ ~sgh.failed) => Survives(sm.status, sm'.status)]_vars

\* C25 witness: a new store holds an agent id, a version and task counts
\* that only mutators of the previous store can have written
C25_Witness ==
    /\ sevt.op = "NewManager"
    /\ sm.status.AgentID = "a1"
    /\ sm.status.Version = "v1"
    /\ sm.status.RunningTasks = TaskCount.running
    /\ sm.status.Status = "running"
    /\ disk.doc.agent_id = "a1"

C27_StartStop ==
    /\ ~(life.start = "startall" /\ SelfBlocked(StartT))
    /\ (life.start = "returned" /\ ~sgh.failed)
         => /\ life.sret = "nil"
            /\ ~ctxDone => sm.status.Status = "running"
    /\ (life.stop = "returned" /\ ctxDone)
         => /\ sm.status.Status = "stopped"
            /\ lp.pc = "exit"
            /\ life.hb = "exited"

(***************************************************************************)
(* Properties of the scheduler plugin                                      *)
(***************************************************************************)
\* C28: an add_task request that returns an error (a required argument
\* missing, or a cron expression that cannot be scheduled) leaves the
\* scheduler unchanged: list_tasks reports the same tasks as before the
\* call and no scheduler entry was added.
C28_AddErrorNoChange ==
    [][(AddTask /\ spevt'.err # "nil") =>
          (handleListTasks(sp') = handleListTasks(sp) /\ sp'.entries = sp.entries)]_vars

\* the fields of a Task an update_task request can edit
Edited(task) ==
    <<task.Name, task.Description, task.CronExpr, task.Command, task.Type>>

\* C29: an update_task request carrying an invalid cron expression is
\* rejected with no partly applied edit: name, description, cron expression,
\* command and type of every Task, and its scheduler entry, are after the
\* call what they were before it.
C29_UpdateInvalidCron ==
    [][(UpdateTask /\ spevt'.err = "invalid cron expression") =>
          /\ DOMAIN sp'.tasks = DOMAIN sp.tasks
          /\ \A i \in DOMAIN sp.tasks :
                /\ Edited(sp'.tasks[i]) = Edited(sp.tasks[i])
                /\ sp'.tasks[i].EntryID = sp.tasks[i].EntryID
          /\ sp'.entries = sp.entries]_vars

\* add_task with a valid six-field expression and enabled=false was the
\* last command to return
SixFieldAdded ==
    /\ spevt.op = "add_task"
    /\ spevt.args = [name |-> "n1", cron_expr |-> Six, command |-> "c1",
                     enabled |-> FALSE]

\* the scheduler entries that run the task
EntriesOf(s, tid) == {e \in s.entries : e.task = tid}

\* C30: add_task with a valid six-field cron expression and enabled=false
\* succeeds and, on a plugin with no other task, leaves list_tasks
\* reporting exactly one Task, not enabled and with no live scheduler
\* entry; enable_task on that id right after succeeds, leaves one entry for
\* the task and a non-zero next run time on it.
C30_AddThenEnable ==
    /\ [](SixFieldAdded =>
            /\ spevt.err = "nil"
            /\ spevt.id \in DOMAIN sp.tasks
            /\ ~sp.tasks[spevt.id].Enabled
            /\ EntriesOf(sp, spevt.id) = {}
            /\ (sp.ntask = 1 => Cardinality(handleListTasks(sp)) = 1))
    /\ [][(SixFieldAdded /\ spevt.err = "nil" /\ EnableTask
                /\ spevt'.args = [id |-> spevt.id]) =>
            /\ spevt'.err = "nil"
            /\ Cardinality(EntriesOf(sp', spevt.id)) = 1
            /\ sp'.tasks[spevt.id].NextRun # ZeroTime]_vars

\* C31: in every state reached by add_task, update_task, enable_task,
\* disable_task, remove_task and the plugin's Start and Stop, the cron
\* scheduler holds at most one entry for an enabled Task, that entry being
\* the one of the Task's EntryID, and no entry for a disabled or removed Task.
C31_OneEntryPerTask ==
    /\ \A e \in sp.entries : e.task \in DOMAIN sp.tasks
    /\ \A tid \in DOMAIN sp.tasks :
          IF sp.tasks[tid].Enabled
          THEN /\ Cardinality(EntriesOf(sp, tid)) <= 1
               /\ \A e \in EntriesOf(sp, tid) : e.id = sp.tasks[tid].EntryID
          ELSE EntriesOf(sp, tid) = {}

\* C32: Stop of a plugin is safe in every lifecycle state: on a plugin whose
\* Init or Start never completed, and a second time after a first Stop, it
\* returns without crashing and leaves the plugin stopped.
C32_StopSafe ==
    spevt.op = "Stop" => (spevt.err = "nil" /\ ~sp.panicked /\ sp.status = "stopped")

\* what one execution does, in order, when the command succeeds and when it
\* fails
OkLog == <<"run_count", "task_started", "command", "success_count", "task_completed">>

ErrLog == <<"run_count", "task_started", "command", "failure_count", "task_failed">>

IsPrefix(a, b) == Len(a) <= Len(b) /\ a = SubSeq(b, 1, Len(a))

\* the executions of a task that have counted their run and not yet their
\* outcome
Counted(s, tid) ==
    {r \in DOMAIN s.runs : s.runs[r].task = tid /\ s.runs[r].pc \in {"started", "running"}}

\* C33: each firing of a Task, by cron or by run_task, increments run_count
\* once before the command is invoked and emits task_started before it, then
\* increments exactly one of success_count and failure_count and emits the
\* matching task_completed or task_failed: run_count is success_count plus
\* failure_count plus the executions still between the two increments, hence
\* never less than their sum and equal to it when no execution of the Task is
\* in flight.
C33_FiringCounts ==
    /\ \A tid \in DOMAIN sp.tasks :
          /\ sp.tasks[tid].RunCount =
                sp.tasks[tid].SuccessCount + sp.tasks[tid].FailureCount
                + Cardinality(Counted(sp, tid))
          /\ sp.tasks[tid].RunCount >= sp.tasks[tid].SuccessCount + sp.tasks[tid].FailureCount
    /\ \A r \in DOMAIN sp.runs :
          IsPrefix(sp.runs[r].log, OkLog) \/ IsPrefix(sp.runs[r].log, ErrLog)
    /\ (spevt.op = "executeTask" /\ spevt.err = "nil") => spevt.log \in {OkLog, ErrLog}

\* C33 witness: a Task has fired twice, once with success and once with
\* failure, the second execution has just returned and none is in flight
C33_Witness ==
    /\ spevt.op = "executeTask"
    /\ spevt.err = "nil"
    /\ sp.runs = <<>>
    /\ \E tid \in DOMAIN sp.tasks :
          /\ sp.tasks[tid].RunCount = 2
          /\ sp.tasks[tid].SuccessCount = 1
          /\ sp.tasks[tid].FailureCount = 1

\* C34: no component holds its own lock while it invokes another one; for
\* the plugin manager: every call of a plugin's Init, Start, Stop or Status
\* that a manager operation makes is made with the registry lock released.
C34_NoLockAcrossCalls ==
    \A i \in DOMAIN evt.calls :
        evt.calls[i][2] \in {"Init", "Start", "Stop", "Status"} => evt.calls[i][3] = "none"


\* C35: plugin configuration round-trips through a stop/start cycle:
\* StopPlugin, once Plugin.Stop has returned, goes on to write the plugin's
\* configuration to its file, the next StartPlugin goes on to read it, and
\* a StartPlugin that returned nil left in the instance the configuration
\* the file holds.
C35_ConfigRoundTrip ==
    /\ \A t \in Threads : (th[t].op = "StopPlugin" /\ th[t].pc = "save") => mu # t
    /\ \A t \in Threads : (th[t].op = "StartPlugin" /\ th[t].pc = "load") => mu # t
    /\ (evt.op = "StartPlugin" /\ evt.ret = "nil" /\ cfgFile[evt.name] # "none")
          => plugins[evt.name].Config = cfgFile[evt.name]

\* C36: every plugin-manager operation terminates: no goroutine, in any
\* operation, waits for the registry lock while its own call holds it.
C36_NoSelfAcquire == \A t \in Threads : ~SelfBlocked(t)


\* C37: validation and scheduling agree on the cron format: the cron
\* expression of every Task that add_task/update_task validation let in is
\* accepted when the Task is registered with the scheduler, and an
\* add_task whose expression the scheduler accepts is not rejected as an
\* invalid cron expression.
C37_ValidationAgrees ==
    /\ \A tid \in DOMAIN sp.tasks : ParseForScheduler(sp.tasks[tid].CronExpr) = "nil"
    /\ (spevt.op = "add_task" /\ Has(spevt.args, "cron_expr")
            /\ ParseForScheduler(spevt.args.cron_expr) = "nil")
          => spevt.err # "invalid cron expression"

\* C38: an enable_task request that returns an error leaves every Task as
\* it was (enabled flag, status, handle) and adds no scheduler entry.
C38_EnableErrorNoChange ==
    [][(EnableTask /\ spevt'.err # "nil") =>
          (sp'.tasks = sp.tasks /\ sp'.entries = sp.entries)]_vars


\* C39: the message router never invokes HandleCommand on a plugin whose
\* registry status is not running: the plugin a handled schedule,
\* file_transfer, update or plugin message was delivered to is registered
\* with status "running".
C39_OnlyRunningHandles ==
    \A n \in DOMAIN plugins :
        lp.hm.did.target = plugins[n].Plugin
            => InstStatus(plugins, pstatus, n).Status = "running"


\* C40: Disconnect (and with it Agent.Stop) completes also while the read
\* loop is inside Receive, in a ReadMessage on a sound connection that no
\* message arrives on: Disconnect is never left waiting for the client lock
\* that this reader holds.
C40_DisconnectNotBlocked ==
    ~(stp.pc = "wait" /\ ~stp.done /\ lp.pc = "read" /\ ws.conn = "open")

==============================================================================
